---- MODULE Spec2Model ----
(***************************************************************************)
(* Session/run storage optimisation layer of polysynergy-nodes-agno:       *)
(*   RunSeparatedStorageWrapper  (agno_storage/wrappers)                    *)
(*   DeltaStorageWrapper         (agno_storage/wrappers)                    *)
(*   RunSeparatedDbWrapper       (agno_db/wrappers)                         *)
(*                                                                         *)
(* Python values are modelled as follows.                                  *)
(*   dict            a function whose domain is a set of strings          *)
(*   list            a sequence                                            *)
(*   None / a value  the empty sequence / a one-element sequence          *)
(*   str ids         tuples: a session id is <<"s1">>, the id             *)
(*                   f"run_{session_id}_{md5}" is <<"run", "s1", run>>   *)
(*                   (md5 over the canonical JSON of the pruned run is    *)
(*                   taken to be collision free: the digest is the run)   *)
(***************************************************************************)
EXTENDS Integers, Sequences, FiniteSets, TLC

VARIABLES
    backend,        \* self.inner: key -> stored record (sessions and run envelopes)
    session_cache,  \* self.session_cache (keys only; nothing ever fills it)
    caller,         \* the session object each caller holds and passes to upsert
    upserted,       \* history: per session id, the runs handed over as "the new run"
    pure,           \* history: the session was built by successive one-new-run upserts only
    member_run_cache, \* RunSeparatedDbWrapper.member_run_cache: run id -> run
    has_client,     \* inner_db has a boto3 client and a session table name
    runs_cache,     \* RunSeparatedStorageWrapper.runs_cache: "sid:run_id" -> run
    mode,           \* self.inner.mode of the storage wrapper's backend
    writers,        \* concurrent upsert calls in progress: their position and locals
    inner_async,    \* the backend's read and upsert are coroutine functions
    inner_fns,      \* which of save_session and save the backend defines
    tool,           \* the fields of an MCPTool node
    hook,           \* a tool hook: what it was created with, its call in progress, the events sent
    nOps,           \* number of state-changing calls made so far
    last            \* observation of the last call: arguments, result, what it wrote

vars == <<backend, session_cache, caller, upserted, pure, member_run_cache,
         has_client, runs_cache, mode, writers, inner_async, inner_fns,
         tool, hook,
         nOps, last>>

----------------------------------------------------------------------------
(* Bounds of the model *)

MaxOps == 3

\* at most this many run loads raise during one read
MaxFailing == 2

(* Program constants *)

MaxRunsWindow == 20

----------------------------------------------------------------------------
(* Python data helpers *)

None == <<>>
Some(v) == <<v>>

EmptyDict == [k \in {} |-> TRUE]

HasKey(d, k) == k \in DOMAIN d

Get(d, k, default) == IF k \in DOMAIN d THEN d[k] ELSE default

\* d[k] = v on a copy of d
Put(d, k, v) == (k :> v) @@ d

\* d.pop(k, None) on a copy of d
Pop(d, k) == CHOOSE r \in {[x \in (DOMAIN e) \ {k} |-> e[x]] : e \in {d}} : TRUE

\* {**old, **new}
Merge(old, new) == new @@ old

InSeq(x, s) == \E i \in 1..Len(s) : s[i] = x

NoDup(s) == \A i, j \in 1..Len(s) : s[i] = s[j] => i = j

Last(s) == s[Len(s)]

Head_n(s, n) == IF Len(s) > n THEN SubSeq(s, 1, n) ELSE s

\* seq[-n:] if len(seq) > n else seq
Tail_n(s, n) == IF Len(s) > n THEN SubSeq(s, Len(s) - n + 1, Len(s)) ELSE s

----------------------------------------------------------------------------
(* Messages and runs *)

Msg(role, content) == [role |-> role, content |-> content]

WithMetrics(m) == Put(m, "metrics", "tokens")

FromHistory(m, b) == Put(m, "from_history", b)

Run(rid, msgs) == [rid |-> rid, messages |-> msgs]

SessionIds == {<<"s1">>}

----------------------------------------------------------------------------
(* RunSeparatedStorageWrapper._optimize_run_messages *)

\* messages with a chat role that are not replayed history
ChatOf(messages) ==
    SelectSeq(messages, LAMBDA m :
        /\ Get(m, "role", "none") \in {"user", "assistant"}
        /\ ~(Get(m, "from_history", FALSE) = TRUE))

\* next((i for i in range(len(chat)-1, -1, -1) if role_at(i) == role), None); 0 is None
LastIndexOfRole(chat, role) ==
    LET S == {i \in 1..Len(chat) : chat[i].role = role}
    IN  IF S = {} THEN 0 ELSE CHOOSE i \in S : \A j \in S : j <= i

\* m.pop("metrics", None); m.pop("from_history", None)
CleanMessage(m) == Pop(Pop(m, "metrics"), "from_history")

KeptNoSort(chat) ==
    LET u == LastIndexOfRole(chat, "user")
        a == LastIndexOfRole(chat, "assistant")
    IN  IF u # 0 /\ a # 0 THEN <<chat[u], chat[a]>>
        ELSE IF u # 0 THEN <<chat[u]>>
        ELSE IF a # 0 THEN <<chat[a]>>
        ELSE <<>>

KeptMessages(chat) ==
    LET u == LastIndexOfRole(chat, "user")
        a == LastIndexOfRole(chat, "assistant")
    IN  IF u # 0 /\ a # 0
        THEN LET lo == IF u < a THEN u ELSE a
                 hi == IF u < a THEN a ELSE u
             IN  <<chat[lo], chat[hi]>>
        ELSE IF u # 0 THEN <<chat[u]>>
        ELSE IF a # 0 THEN <<chat[a]>>
        ELSE <<>>

OptimizeRunMessages(run_data) ==
    LET messages == Get(run_data, "messages", <<>>)
        chat == ChatOf(messages)
    IN  IF chat = <<>>
        THEN Put(run_data, "messages", <<>>)
        ELSE LET kept == KeptMessages(chat)
             IN  Put(run_data, "messages",
                     [i \in 1..Len(kept) |-> CleanMessage(kept[i])])

----------------------------------------------------------------------------
(* DeltaStorageWrapper._prune_all_runs *)

\* the loop body never reaches its last branch with neither role present,
\* since chat is non-empty there
DeltaKeptMessages(chat) ==
    LET u == LastIndexOfRole(chat, "user")
        a == LastIndexOfRole(chat, "assistant")
    IN  IF u # 0 /\ a # 0
        THEN LET lo == IF u < a THEN u ELSE a
                 hi == IF u < a THEN a ELSE u
             IN  <<chat[lo], chat[hi]>>
        ELSE IF u # 0 THEN <<chat[u]>>
        ELSE <<chat[a]>>

\* one pass of "for run in runs"
DeltaPruneRun(run) ==
    LET msgs == Get(run, "messages", <<>>)
        chat == ChatOf(msgs)
    IN  IF chat = <<>>
        THEN Put(run, "messages", <<>>)
        ELSE LET kept == DeltaKeptMessages(chat)
             IN  Put(run, "messages",
                     [i \in 1..Len(kept) |-> CleanMessage(kept[i])])

\* the session object after the call (the runs are pruned in place)
PruneAllRuns(session) ==
    IF ~HasKey(session, "memory") THEN session
    ELSE LET runs == Get(session.memory, "runs", <<>>)
         IN  IF runs = <<>> THEN session
             ELSE [session EXCEPT !.memory =
                      Put(session.memory, "runs",
                          [i \in 1..Len(runs) |-> DeltaPruneRun(runs[i])])]

----------------------------------------------------------------------------
(* The wrapped backend (self.inner): a keyed store of session records *)

InnerRead(bk, key) == IF key \in DOMAIN bk THEN Some(bk[key]) ELSE None

InnerUpsert(bk, record) == Put(bk, record.session_id, record)

InnerDelete(bk, key) == Pop(bk, key)

----------------------------------------------------------------------------
(* RunSeparatedStorageWrapper helpers *)

GetSessionId(session) == session.session_id

\* None when the session carries no memory
GetMemory(session) ==
    IF "memory" \in DOMAIN session THEN session.memory ELSE None

IsOptimizedSession(session) ==
    Get(GetMemory(session), "__run_separated", FALSE) = TRUE

IsSeparatedRun(session) ==
    Get(GetMemory(session), "__is_separated_run", FALSE) = TRUE

GetRunsFromSession(session) == Get(GetMemory(session), "runs", <<>>)

GetRunReferences(session) == Get(GetMemory(session), "run_references", <<>>)

GenerateRunId(session_id, run_data) == <<"run">> \o session_id \o <<run_data>>

MarkSessionOptimized(session, run_references) ==
    [session EXCEPT !.memory =
        Merge(GetMemory(session),
              ("runs" :> <<>>) @@ ("run_references" :> run_references)
              @@ ("__run_separated" :> TRUE) @@ ("__migrated_at" :> "now"))]

RunEnvelope(run_id, run_data) ==
    [session_id |-> run_id,
     agent_id   |-> "run_storage",
     user_id    |-> "run_storage",
     memory     |-> ("single_run" :> run_data) @@ ("run_id" :> run_id)
                    @@ ("__is_separated_run" :> TRUE)]

StoreRunNowhere(bk, run_id, run_data) == bk

StoreRunSeparately(bk, run_id, run_data) ==
    InnerUpsert(bk, RunEnvelope(run_id, run_data))

LoadRunUncaught(bk, run_id, failing) ==
    IF run_id \in failing THEN [exc |-> TRUE, val |-> None]
    ELSE LET run_session == InnerRead(bk, run_id)
         IN  IF run_session = None THEN [exc |-> FALSE, val |-> None]
             ELSE LET memory == GetMemory(run_session[1])
                  IN  IF HasKey(memory, "__is_separated_run")
                      THEN [exc |-> FALSE,
                            val |-> IF HasKey(memory, "single_run")
                                    THEN Some(memory["single_run"]) ELSE None]
                      ELSE [exc |-> FALSE, val |-> None]

\* failing: the keys whose backend read raises during this call; the bare
\* except turns a raise into None
LoadRunFromStorage(bk, run_id, failing) ==
    IF run_id \in failing THEN [exc |-> FALSE, val |-> None]
    ELSE LET run_session == InnerRead(bk, run_id)
         IN  IF run_session = None THEN [exc |-> FALSE, val |-> None]
             ELSE LET memory == GetMemory(run_session[1])
                  IN  IF HasKey(memory, "__is_separated_run")
                      THEN [exc |-> FALSE,
                            val |-> IF HasKey(memory, "single_run")
                                    THEN Some(memory["single_run"]) ELSE None]
                      ELSE [exc |-> FALSE, val |-> None]

\* Python truth value of a loaded run (a dict): non-empty
Truthy(opt) == opt # None /\ DOMAIN opt[1] # {}

StripMarkers(memory) ==
    Pop(Pop(Pop(Pop(memory, "run_references"), "__run_separated"),
            "__migrated_at"), "__last_updated")

ReconstructSessionForAgno(bk, session, failing) ==
    LET run_references == GetRunReferences(session)
    IN  IF run_references = <<>>
        THEN [exc |-> FALSE, val |-> Some(session), loads |-> <<>>, backend |-> bk]
        ELSE
          LET runs_to_load == Tail_n(run_references, MaxRunsWindow)
              loaded == [i \in 1..Len(runs_to_load) |->
                            LoadRunFromStorage(bk, runs_to_load[i], failing)]
              found == SelectSeq(loaded, LAMBDA l : Truthy(l.val))
              reconstructed_runs ==
                  [i \in 1..Len(found) |->
                      IF HasKey(found[i].val[1], "single_run")
                      THEN found[i].val[1]["single_run"]
                      ELSE found[i].val[1]]
              memory == StripMarkers(
                  Put(GetMemory(session), "runs", reconstructed_runs))
          IN  IF \E i \in 1..Len(loaded) : loaded[i].exc
              THEN [exc |-> TRUE, val |-> None, loads |-> runs_to_load,
                    backend |-> bk]
              ELSE [exc |-> FALSE,
                    val |-> Some([session EXCEPT !.memory = memory]),
                    loads |-> runs_to_load, backend |-> bk]

ReadLegacyStripped(bk, session_id, failing) ==
    LET result == InnerRead(bk, session_id)
    IN  IF result = None
        THEN [exc |-> FALSE, val |-> None, loads |-> <<>>, backend |-> bk]
        ELSE IF IsSeparatedRun(result[1])
        THEN [exc |-> FALSE, val |-> None, loads |-> <<>>, backend |-> bk]
        ELSE IF IsOptimizedSession(result[1])
        THEN ReconstructSessionForAgno(bk, result[1], failing)
        ELSE [exc |-> FALSE,
              val |-> Some(MarkSessionOptimized(result[1], <<>>)),
              loads |-> <<>>, backend |-> bk]

\* RunSeparatedStorageWrapper.read
ReadResult(bk, session_id, failing) ==
    LET result == InnerRead(bk, session_id)
    IN  IF result = None
        THEN [exc |-> FALSE, val |-> None, loads |-> <<>>, backend |-> bk]
        ELSE IF IsSeparatedRun(result[1])
        THEN [exc |-> FALSE, val |-> None, loads |-> <<>>, backend |-> bk]
        ELSE IF IsOptimizedSession(result[1])
        THEN ReconstructSessionForAgno(bk, result[1], failing)
        ELSE [exc |-> FALSE, val |-> result, loads |-> <<>>, backend |-> bk]

\* the caller's session object after the call: last_run is the very dict that
\* sits in the caller's list, and _optimize_run_messages writes into it
AliasedSession(session, optimized_run) ==
    LET runs == GetRunsFromSession(session)
    IN  [session EXCEPT !.memory =
            Put(GetMemory(session), "runs",
                [runs EXCEPT ![Len(runs)] = optimized_run])]

IsNewRunAlways(run_id, existing_run_refs) == TRUE

\* if run_id not in existing_run_refs
IsNewRun(run_id, existing_run_refs) == ~InSeq(run_id, existing_run_refs)

\* _extract_and_separate_runs from "Only process the LAST run" on
\* storeFails: self.inner.upsert of the run envelope raises; the except
\* branch of _store_run_separately re-raises and nothing here catches it
SeparateLastRun(bk, session, existing_run_refs, optimized_run, storeFails) ==
    LET run_id == GenerateRunId(GetSessionId(session), optimized_run)
        fresh == IsNewRun(run_id, existing_run_refs)
        after == AliasedSession(session, optimized_run)
    IN  [optimized |-> MarkSessionOptimized(after,
                          IF fresh THEN Append(existing_run_refs, run_id)
                          ELSE existing_run_refs),
         backend   |-> IF fresh /\ ~storeFails
                       THEN StoreRunSeparately(bk, run_id, optimized_run)
                       ELSE bk,
         session   |-> after,
         run_id    |-> Some(run_id),
         writes    |-> IF fresh THEN <<run_id>> ELSE <<>>,
         raised    |-> fresh /\ storeFails]

\* RunSeparatedStorageWrapper._extract_and_separate_runs
ExtractAndSeparateRuns(bk, session, storeFails) ==
    LET session_id == GetSessionId(session)
        incoming_runs == GetRunsFromSession(session)
    IN  IF incoming_runs = <<>>
        THEN [optimized |-> MarkSessionOptimized(session, <<>>),
              backend   |-> bk,
              session   |-> session,
              run_id    |-> None,
              writes    |-> <<>>,
              raised    |-> FALSE]
        ELSE
          LET existing_session == InnerRead(bk, session_id)
              existing_run_refs ==
                  IF existing_session # None
                  THEN GetRunReferences(existing_session[1]) ELSE <<>>
          IN  CHOOSE res \in
                  {SeparateLastRun(bk, session, refs, optimized_run, storeFails) :
                       refs \in {existing_run_refs},
                       optimized_run \in {OptimizeRunMessages(Last(incoming_runs))}} :
                  TRUE

\* the upsert that a raise in the extract step would have if it were caught
\* and the session written all the same
UpsertSwallowing(bk, session, storeFails) ==
    CHOOSE u \in
        {[backend |-> InnerUpsert(r.backend, r.optimized),
          session |-> r.session,
          stored  |-> r.optimized,
          run_id  |-> r.run_id,
          writes  |-> Append(r.writes, GetSessionId(session)),
          raised  |-> r.raised] :
         r \in {ExtractAndSeparateRuns(bk, session, storeFails)}} : TRUE

\* RunSeparatedStorageWrapper.upsert; writes: the backend writes attempted,
\* in order; raised: the call ended in an exception
UpsertResult(bk, session, storeFails) ==
    CHOOSE u \in
        {[backend |-> IF r.raised THEN r.backend
                      ELSE InnerUpsert(r.backend, r.optimized),
          session |-> r.session,
          stored  |-> r.optimized,
          run_id  |-> r.run_id,
          writes  |-> IF r.raised THEN r.writes
                      ELSE Append(r.writes, GetSessionId(session)),
          raised  |-> r.raised] :
         r \in {ExtractAndSeparateRuns(bk, session, storeFails)}} : TRUE

\* RunSeparatedStorageWrapper.get_run
GetRunResult(bk, cache, session_id, run_id, failing) ==
    IF <<session_id, run_id>> \in DOMAIN cache
    THEN [val |-> Some(cache[<<session_id, run_id>>]), cache |-> cache]
    ELSE CHOOSE g \in
           {IF Truthy(l.val)
            THEN [val |-> l.val, cache |-> Put(cache, <<session_id, run_id>>, l.val[1])]
            ELSE [val |-> None, cache |-> cache] :
            l \in {LoadRunFromStorage(bk, run_id, failing)}} : TRUE

\* runs_cache keys are f"{session_id}:{run_id}", here <<session_id, run_id>>
ClearRunsCache(cache, session_id) ==
    [k \in {x \in DOMAIN cache : x[1] # session_id} |-> cache[k]]

ClearSessionCache(cache, session_id) ==
    {k \in cache : SubSeq(k, 1, Len(session_id)) # session_id}

----------------------------------------------------------------------------
(* Inputs *)

Hi == Msg("user", "hi")
Hello == Msg("assistant", "hello")
Bye == Msg("user", "bye")

\* the runs a caller may add: NewRuns[1] and NewRuns[2] differ as submitted and
\* are equal once pruned; NewRuns[4] has no chat message left once pruned
NewRuns ==
    { Run(1, <<WithMetrics(Hi), FromHistory(WithMetrics(Hello), FALSE)>>),
      Run(1, <<FromHistory(Hi, TRUE), FromHistory(Hello, TRUE), Hi, Hello>>),
      Run(2, <<Hello, Bye>>),
      Run(2, <<Msg("system", "be brief"), FromHistory(Hi, TRUE)>>) }

\* the i-th run of a long conversation held before the model starts
Filler(i) == Run(100 + i,
    <<FromHistory(Hi, TRUE), WithMetrics(Bye), WithMetrics(Hello)>>)

FreshSession(sid) == [session_id |-> sid, memory |-> ("runs" :> <<>>)]

WithRun(session, run) ==
    [session EXCEPT !.memory =
        Put(GetMemory(session), "runs", Append(GetRunsFromSession(session), run))]

\* the state after n one-new-run upserts of Filler(1..n) through the wrapper
PreloadStep(p, n) ==
    CHOOSE q \in {[backend |-> r.backend, session |-> r.session] :
                    r \in {UpsertResult(p.backend, WithRun(p.session, Filler(n)), FALSE)}} : TRUE

RECURSIVE Preloaded(_, _)
Preloaded(sid, n) ==
    IF n = 0
    THEN [backend |-> EmptyDict, session |-> FreshSession(sid)]
    ELSE CHOOSE q \in {PreloadStep(p, n) : p \in {Preloaded(sid, n - 1)}} : TRUE

\* a record written before the wrapper was installed: embedded runs, no marker
LegacyRuns == <<Run(7, <<Hi, Hello>>), Run(8, <<Bye, WithMetrics(Hello)>>)>>

LegacySession(sid) == [session_id |-> sid, memory |-> ("runs" :> LegacyRuns)]

Scenarios == {"fresh", "legacy", "long"}

\* what the backend holds for one session, and what its caller holds, at the start
SessionStart(sid, scen) ==
    CASE scen = "fresh" ->
           [backend |-> EmptyDict, session |-> FreshSession(sid), upserted |-> <<>>]
      [] scen = "legacy" ->
           [backend |-> (sid :> LegacySession(sid)),
            session |-> LegacySession(sid), upserted |-> <<>>]
      [] scen = "long" ->
           LET p == Preloaded(sid, MaxRunsWindow - 1)
           IN  [backend |-> p.backend, session |-> p.session,
                upserted |-> [i \in 1..(MaxRunsWindow - 1) |-> Filler(i)]]

\* the union of the sessions' records (their keys are disjoint)
MergeBackends(S, start) ==
    [k \in UNION {DOMAIN start[s].backend : s \in S} |->
        start[CHOOSE s \in S : k \in DOMAIN start[s].backend].backend[k]]

Idle == [op |-> "none"]

Init ==
    \E scen \in [SessionIds -> Scenarios] :
      LET start == [s \in SessionIds |-> SessionStart(s, scen[s])]
      IN  /\ backend = MergeBackends(SessionIds, start)
          /\ caller = [s \in SessionIds |-> start[s].session]
          /\ upserted = [s \in SessionIds |-> start[s].upserted]
          /\ pure = [s \in SessionIds |-> scen[s] # "legacy"]
          /\ session_cache = {}
          /\ member_run_cache = EmptyDict
          /\ has_client = FALSE
          /\ runs_cache = EmptyDict
          /\ mode = "agent"
          /\ inner_async = FALSE
          /\ inner_fns = {}
          /\ tool = EmptyDict
          /\ hook = EmptyDict
          /\ writers = EmptyDict
          /\ nOps = 0
          /\ last = Idle

----------------------------------------------------------------------------
(* Operations *)

\* upsert(session): kind "new" hands over the caller's session with one more
\* run, "same" hands over the caller's session as it is; storeFails: the
\* backend refuses the run write of this call
DoUpsert(sid, session, kind, newRun, storeFails) ==
    \E r \in {UpsertResult(backend, session, storeFails)} :
        /\ nOps < MaxOps
        /\ storeFails => r.raised
        /\ backend' = r.backend
        /\ session_cache' = IF r.raised THEN session_cache
                            ELSE ClearSessionCache(session_cache, sid)
        /\ caller' = [caller EXCEPT ![sid] = r.session]
        /\ upserted' = [upserted EXCEPT ![sid] = IF r.raised THEN @ ELSE @ \o newRun]
        /\ pure' = [pure EXCEPT ![sid] = @ /\ kind = "new" /\ ~r.raised]
        /\ UNCHANGED <<inner_fns, tool, hook, inner_async, member_run_cache, has_client,
                   runs_cache, mode, writers>>
        /\ nOps' = nOps + 1
        /\ last' = IF r.raised
                   THEN [op |-> "upsert_raised", kind |-> kind, sid |-> sid,
                         argBefore |-> session, argAfter |-> r.session,
                         before |-> backend, run_id |-> r.run_id,
                         writes |-> r.writes, raised |-> TRUE]
                   ELSE [op |-> "upsert", kind |-> kind, sid |-> sid,
                         argBefore |-> session, argAfter |-> r.session,
                         before |-> backend, stored |-> r.stored,
                         run_id |-> r.run_id, writes |-> r.writes,
                         inRow |-> last.op = "upsert" /\ last.sid = sid,
                         prevRunId |-> IF last.op = "upsert" /\ last.sid = sid
                                       THEN last.run_id ELSE None]

UpsertNew(sid, run, storeFails) ==
    DoUpsert(sid, WithRun(caller[sid], run), "new", <<run>>, storeFails)

UpsertSame(sid, storeFails) == DoUpsert(sid, caller[sid], "same", <<>>, storeFails)

StoredRefs(sid) ==
    LET rec == InnerRead(backend, sid)
    IN  IF rec = None THEN <<>> ELSE GetRunReferences(rec[1])

\* a caller that starts over with a session object of its own making
NewSessionObject(sid) ==
    /\ nOps < MaxOps
    /\ caller[sid] # FreshSession(sid)
    /\ caller' = [caller EXCEPT ![sid] = FreshSession(sid)]
    /\ nOps' = nOps + 1
    /\ pure' = [pure EXCEPT ![sid] = FALSE]
    /\ last' = [op |-> "new_object", sid |-> sid]
    /\ UNCHANGED <<inner_fns, tool, hook, inner_async, backend, session_cache, upserted, member_run_cache, has_client,
                   runs_cache, mode, writers>>

\* RunSeparatedStorageWrapper.delete_session; any stored id may be passed
DeleteSession(key) ==
    /\ nOps < MaxOps
    /\ backend' = InnerDelete(backend, key)
    /\ session_cache' = ClearSessionCache(session_cache, key)
    /\ pure' = [s \in SessionIds |->
                  pure[s] /\ key # s /\ ~InSeq(key, StoredRefs(s))]
    /\ nOps' = nOps + 1
    /\ last' = [op |-> "delete", sid |-> key, before |-> backend]
    /\ runs_cache' = ClearRunsCache(runs_cache, key)
    /\ UNCHANGED <<inner_fns, tool, hook, inner_async, caller, upserted, member_run_cache, has_client, mode, writers>>

\* RunSeparatedStorageWrapper.read; failing: the run loads that raise.
\* A read changes nothing but the observation, so a read that follows a read
\* is left out: it reaches no state that the first read's predecessor does not.
Read(sid, failing) ==
    \E r \in {ReadResult(backend, sid, failing)} :
        /\ last.op # "read"
        /\ backend' = r.backend
        /\ last' = [op |-> "read", sid |-> sid, failing |-> failing,
                    result |-> [exc |-> r.exc, val |-> r.val, loads |-> r.loads],
                    wrote |-> r.backend # backend]
        /\ UNCHANGED <<inner_fns, tool, hook, inner_async, session_cache, caller, upserted, pure, member_run_cache,
                       has_client, nOps,
                   runs_cache, mode, writers>>

\* where faults are injected: the ends of a reference list and the edge of
\* the read window
FaultCandidates(refs) ==
    LET n == Len(refs)
    IN  {refs[i] : i \in {j \in {1, n - MaxRunsWindow, n - MaxRunsWindow + 1, n - 1, n} :
                              j >= 1 /\ j <= n}}

SubsetsUpTo(S, n) == {T \in SUBSET S : Cardinality(T) <= n}

Next ==
    \/ \E sid \in SessionIds, run \in NewRuns, storeFails \in BOOLEAN :
          UpsertNew(sid, run, storeFails)
    \/ \E sid \in SessionIds, storeFails \in BOOLEAN : UpsertSame(sid, storeFails)
    \/ \E sid \in SessionIds : NewSessionObject(sid)
    \/ \E sid \in SessionIds :
          \E key \in {sid} \cup FaultCandidates(StoredRefs(sid)) :
             key \in DOMAIN backend /\ DeleteSession(key)
    \/ \E sid \in SessionIds :
          \E failing \in SubsetsUpTo(FaultCandidates(StoredRefs(sid)), MaxFailing) :
             Read(sid, failing)

Spec == Init /\ [][Next]_vars

----------------------------------------------------------------------------
(* upsert when the backend read of the existing session raises: the bare
   except of _extract_and_separate_runs leaves existing_run_refs = [] *)

ExtractReadRaising(bk, session) ==
    LET incoming_runs == GetRunsFromSession(session)
    IN  IF incoming_runs = <<>>
        THEN [optimized |-> MarkSessionOptimized(session, <<>>),
              backend   |-> bk,
              session   |-> session]
        ELSE CHOOSE res \in
               {[optimized |-> r.optimized, backend |-> r.backend,
                 session |-> r.session] :
                r \in {SeparateLastRun(bk, session, <<>>, optimized_run, FALSE) :
                         optimized_run \in
                             {OptimizeRunMessages(Last(incoming_runs))}}} : TRUE

\* upsert of the caller's session with one more run, the read raising
UpsertReadRaising(sid, run) ==
    \E r \in {ExtractReadRaising(backend, WithRun(caller[sid], run))} :
        /\ nOps < MaxOps
        /\ backend' = InnerUpsert(r.backend, r.optimized)
        /\ session_cache' = ClearSessionCache(session_cache, sid)
        /\ caller' = [caller EXCEPT ![sid] = r.session]
        /\ upserted' = [upserted EXCEPT ![sid] = Append(@, run)]
        /\ pure' = [pure EXCEPT ![sid] = FALSE]
        /\ nOps' = nOps + 1
        /\ last' = [op |-> "upsert_read_raising", sid |-> sid, before |-> backend]
        /\ UNCHANGED <<inner_fns, tool, hook, inner_async, member_run_cache, has_client,
                       runs_cache, mode, writers>>

NextFault ==
    \/ \E sid \in SessionIds, run \in NewRuns : UpsertNew(sid, run, FALSE)
    \/ \E sid \in SessionIds, run \in NewRuns : UpsertReadRaising(sid, run)

SpecFault == Init /\ [][NextFault]_vars

----------------------------------------------------------------------------
(* The run-level API of RunSeparatedStorageWrapper next to upsert and delete *)

\* the loop of get_recent_runs: get_run for each reference, in order
RECURSIVE LoadRecentRuns(_, _, _, _)
LoadRecentRuns(bk, cache, session_id, refs) ==
    IF refs = <<>>
    THEN [runs |-> <<>>, cache |-> cache]
    ELSE CHOOSE res \in
           {[runs |-> IF Truthy(g.val) THEN <<g.val[1]>> \o rest.runs
                      ELSE rest.runs,
             cache |-> rest.cache] :
            g \in {GetRunResult(bk, cache, session_id, Head(refs), {})},
            rest \in {LoadRecentRuns(bk,
                         GetRunResult(bk, cache, session_id, Head(refs), {}).cache,
                         session_id, Tail(refs))}} : TRUE

\* RunSeparatedStorageWrapper.get_recent_runs: the session comes from self.read
GetRecentRunsResult(bk, cache, session_id, limit) ==
    LET session == ReadResult(bk, session_id, {}).val
    IN  IF ~Truthy(session)
        THEN [runs |-> <<>>, cache |-> cache]
        ELSE LET run_references == GetRunReferences(session[1])
             IN  IF run_references = <<>>
                 THEN [runs |-> <<>>, cache |-> cache]
                 ELSE LoadRecentRuns(bk, cache, session_id,
                                     Tail_n(run_references, limit))

Limits == {1, 2, 10}

\* the ids of the run envelopes the backend holds
StoredRunEnvelopes ==
    {k \in DOMAIN backend : IsSeparatedRun(backend[k])}

ApiGetRecentRuns(sid, limit) ==
    \E g \in {GetRecentRunsResult(backend, runs_cache, sid, limit)} :
        /\ last.op # "get_recent_runs"
        /\ runs_cache' = g.cache
        /\ last' = [op |-> "get_recent_runs", sid |-> sid, limit |-> limit,
                    result |-> g.runs]
        /\ UNCHANGED <<inner_fns, tool, hook, inner_async, backend, session_cache, caller, upserted,
                       pure, member_run_cache, has_client, mode, writers, nOps>>

ApiGetRun(sid, run_id) ==
    \E g \in {GetRunResult(backend, runs_cache, sid, run_id, {})} :
        /\ nOps < MaxOps
        /\ <<sid, run_id>> \notin DOMAIN runs_cache
        /\ runs_cache' = g.cache
        /\ nOps' = nOps + 1
        /\ last' = [op |-> "get_run", sid |-> sid, id |-> run_id, result |-> g.val]
        /\ UNCHANGED <<inner_fns, tool, hook, inner_async, backend, session_cache, caller, upserted,
                       pure, member_run_cache, has_client, mode, writers>>

NextApi ==
    \/ \E sid \in SessionIds, run \in NewRuns : UpsertNew(sid, run, FALSE)
    \/ \E sid \in SessionIds : sid \in DOMAIN backend /\ DeleteSession(sid)
    \/ \E sid \in SessionIds, limit \in Limits : ApiGetRecentRuns(sid, limit)
    \/ \E sid \in SessionIds :
          \E run_id \in FaultCandidates(StoredRefs(sid)) : ApiGetRun(sid, run_id)

SpecApi == Init /\ [][NextApi]_vars

----------------------------------------------------------------------------
(* The message pruners on their own: every message list up to MaxMsgs *)

MaxMsgs == 3

\* the shapes a message comes in: plain, replayed history, and fresh with
\* metrics and an explicit from_history = False
Shapes(m) == {m, FromHistory(m, TRUE), FromHistory(WithMetrics(m), FALSE)}

MsgUniverse ==
    UNION {Shapes(m) : m \in {Msg("user", "x"), Msg("user", "y"),
                              Msg("assistant", "x"), Msg("system", "x")}}
    \cup {[content |-> "x"]}

MessageLists == UNION {[1..n -> MsgUniverse] : n \in 0..MaxMsgs}

Reversed(s) == [i \in 1..Len(s) |-> s[Len(s) + 1 - i]]

InitPrune ==
    /\ backend = EmptyDict
    /\ caller = [s \in SessionIds |-> FreshSession(s)]
    /\ upserted = [s \in SessionIds |-> <<>>]
    /\ pure = [s \in SessionIds |-> FALSE]
    /\ session_cache = {}
    /\ member_run_cache = EmptyDict
    /\ has_client = FALSE
    /\ runs_cache = EmptyDict
    /\ mode = "agent"
    /\ inner_async = FALSE
    /\ inner_fns = {}
    /\ tool = EmptyDict
    /\ hook = EmptyDict
    /\ writers = EmptyDict
    /\ nOps = 0
    /\ \E msgs \in MessageLists : last = [op |-> "input", messages |-> msgs]

\* RunSeparatedStorageWrapper._optimize_run_messages on a run with these messages
OptimizeRun ==
    /\ last.op = "input"
    /\ last' = [op |-> "optimize_run_messages", input |-> <<last.messages>>,
                result |-> <<OptimizeRunMessages(Run(1, last.messages)).messages>>]
    /\ UNCHANGED <<inner_fns, tool, hook, inner_async, backend, session_cache, caller, upserted, pure,
                   member_run_cache, has_client, nOps,
                   runs_cache, mode, writers>>

\* DeltaStorageWrapper.upsert of a session of two runs: these messages, and
\* the same in reverse order
DeltaUpsert(sid) ==
    /\ last.op = "input"
    /\ LET session == WithRun(WithRun(FreshSession(sid), Run(1, last.messages)),
                              Run(2, Reversed(last.messages)))
           pruned == PruneAllRuns(session)
       IN  /\ backend' = InnerUpsert(backend, pruned)
           /\ caller' = [caller EXCEPT ![sid] = pruned]
           /\ last' = [op |-> "prune_all_runs",
                       input |-> <<last.messages, Reversed(last.messages)>>,
                       result |-> [i \in 1..Len(pruned.memory.runs) |->
                                      pruned.memory.runs[i].messages]]
    /\ nOps' = nOps + 1
    /\ UNCHANGED <<inner_fns, tool, hook, inner_async, session_cache, upserted, pure, member_run_cache, has_client,
                   runs_cache, mode, writers>>

NextPrune ==
    \/ OptimizeRun
    \/ \E sid \in SessionIds : DeltaUpsert(sid)

SpecPrune == InitPrune /\ [][NextPrune]_vars

----------------------------------------------------------------------------
(* The pruners on either representation of a run and of its messages: a
   mapping (dict) or an object with attributes.  _get reads both alike;
   _set(obj, key, val) is "obj[key] = val if _is_dict(obj) else setattr(..)",
   which for an object sets the attribute and then assigns obj[key] = None,
   a TypeError; the clean-up of a kept message is guarded by _is_dict(m). *)

\* _set(run, "messages", val): the run afterwards and whether it raised
SetMessages(runIsDict, run_data, val) ==
    [raised |-> ~runIsDict, run |-> Put(run_data, "messages", val)]

\* RunSeparatedStorageWrapper._optimize_run_messages
OptimizeRunMessagesAs(runIsDict, msgIsDict, run_data) ==
    LET messages == Get(run_data, "messages", <<>>)
        chat == ChatOf(messages)
    IN  IF chat = <<>>
        THEN SetMessages(runIsDict, run_data, <<>>)
        ELSE LET kept == KeptMessages(chat)
             IN  SetMessages(runIsDict, run_data,
                     [i \in 1..Len(kept) |->
                         IF msgIsDict THEN CleanMessage(kept[i]) ELSE kept[i]])

\* one pass of the loop of DeltaStorageWrapper._prune_all_runs
DeltaPruneRunAs(runIsDict, msgIsDict, run) ==
    LET msgs == Get(run, "messages", <<>>)
        chat == ChatOf(msgs)
    IN  IF chat = <<>>
        THEN SetMessages(runIsDict, run, <<>>)
        ELSE LET kept == DeltaKeptMessages(chat)
             IN  SetMessages(runIsDict, run,
                     [i \in 1..Len(kept) |->
                         IF msgIsDict THEN CleanMessage(kept[i]) ELSE kept[i]])

\* _optimize_run_messages on a run with the input messages, in one representation
OptimizeRunAs(runIsDict, msgIsDict) ==
    /\ last.op = "input"
    /\ \E r \in {OptimizeRunMessagesAs(runIsDict, msgIsDict, Run(1, last.messages))} :
          last' = [op |-> "optimize_as", runIsDict |-> runIsDict,
                   msgIsDict |-> msgIsDict, input |-> last.messages,
                   raised |-> r.raised, result |-> r.run.messages]
    /\ UNCHANGED <<inner_fns, tool, hook, inner_async, backend, session_cache, caller, upserted, pure,
                   member_run_cache, has_client, nOps,
                   runs_cache, mode, writers>>

\* the loop body of _prune_all_runs on such a run
DeltaPruneAs(runIsDict, msgIsDict) ==
    /\ last.op = "input"
    /\ \E r \in {DeltaPruneRunAs(runIsDict, msgIsDict, Run(1, last.messages))} :
          last' = [op |-> "delta_prune_as", runIsDict |-> runIsDict,
                   msgIsDict |-> msgIsDict, input |-> last.messages,
                   raised |-> r.raised, result |-> r.run.messages]
    /\ UNCHANGED <<inner_fns, tool, hook, inner_async, backend, session_cache, caller, upserted, pure,
                   member_run_cache, has_client, nOps,
                   runs_cache, mode, writers>>

NextRepr ==
    \/ \E runIsDict \in BOOLEAN, msgIsDict \in BOOLEAN :
          OptimizeRunAs(runIsDict, msgIsDict)
    \/ \E runIsDict \in BOOLEAN, msgIsDict \in BOOLEAN :
          DeltaPruneAs(runIsDict, msgIsDict)

SpecRepr == InitPrune /\ [][NextRepr]_vars

----------------------------------------------------------------------------
(* Two callers of RunSeparatedStorageWrapper.upsert on one session id.  The
   wrapper takes no lock, so the calls interleave at the backend calls of one
   upsert: inner.read of the stored session, inner.upsert of the run envelope,
   inner.upsert of the session. *)

Writers == {"w1", "w2"}

NoExistingRunRefs(bk, session_id) == <<>>

\* existing_run_refs as _extract_and_separate_runs reads them from the backend
ExistingRunRefs(bk, session_id) ==
    LET existing_session == InnerRead(bk, session_id)
    IN  IF Truthy(existing_session)
        THEN GetRunReferences(existing_session[1]) ELSE <<>>

\* what the backend holds when both callers start: 0, 1 or 2 earlier runs
ConcStarts(sid) == {Preloaded(sid, n) : n \in 0..2}

InitConc ==
    /\ \E start \in ConcStarts(<<"s1">>) :
          /\ backend = start.backend
          /\ \E r1 \in NewRuns, r2 \in NewRuns :
                writers = [w \in Writers |->
                    [pc |-> "start",
                     session |-> WithRun(start.session, IF w = "w1" THEN r1 ELSE r2),
                     refs |-> <<>>, run_id |-> None, seen |-> EmptyDict]]
    /\ caller = [s \in SessionIds |-> FreshSession(s)]
    /\ upserted = [s \in SessionIds |-> <<>>]
    /\ pure = [s \in SessionIds |-> FALSE]
    /\ session_cache = {}
    /\ member_run_cache = EmptyDict
    /\ has_client = FALSE
    /\ runs_cache = EmptyDict
    /\ mode = "agent"
    /\ inner_async = FALSE
    /\ inner_fns = {}
    /\ tool = EmptyDict
    /\ hook = EmptyDict
    /\ nOps = 0
    /\ last = Idle

\* _extract_and_separate_runs up to and including inner.read(session_id)
ConcReadRefs(w) ==
    /\ writers[w].pc = "start"
    /\ writers' = [writers EXCEPT ![w] =
          [@ EXCEPT !.pc = "read",
                    !.refs = ExistingRunRefs(backend,
                                GetSessionId(writers[w].session)),
                    !.seen = backend]]
    /\ last' = [op |-> "conc_read", w |-> w]
    /\ UNCHANGED <<inner_fns, tool, hook, inner_async, backend, session_cache, caller, upserted, pure,
                   member_run_cache, has_client, runs_cache, mode, nOps>>

\* pruning of the last run, the dedup check and _store_run_separately
ConcStoreRun(w) ==
    /\ writers[w].pc = "read"
    /\ \E optimized_run \in
           {OptimizeRunMessages(Last(GetRunsFromSession(writers[w].session)))} :
       \E run_id \in {GenerateRunId(GetSessionId(writers[w].session), optimized_run)} :
          /\ backend' = IF IsNewRun(run_id, writers[w].refs)
                        THEN StoreRunSeparately(backend, run_id, optimized_run)
                        ELSE backend
          /\ writers' = [writers EXCEPT ![w] =
                [@ EXCEPT !.pc = "stored",
                          !.session = AliasedSession(@, optimized_run),
                          !.run_id = Some(run_id),
                          !.refs = IF IsNewRun(run_id, @)
                                   THEN Append(@, run_id) ELSE @]]
    /\ last' = [op |-> "conc_store", w |-> w]
    /\ UNCHANGED <<inner_fns, tool, hook, inner_async, session_cache, caller, upserted, pure,
                   member_run_cache, has_client, runs_cache, mode, nOps>>

\* _mark_session_optimized, the cache clearing of upsert and inner.upsert
ConcUpsertSession(w) ==
    /\ writers[w].pc = "stored"
    /\ backend' = InnerUpsert(backend,
                      MarkSessionOptimized(writers[w].session, writers[w].refs))
    /\ session_cache' = ClearSessionCache(session_cache,
                                          GetSessionId(writers[w].session))
    /\ writers' = [writers EXCEPT ![w] = [@ EXCEPT !.pc = "done"]]
    /\ last' = [op |-> "conc_upsert", w |-> w]
    /\ UNCHANGED <<inner_fns, tool, hook, inner_async, caller, upserted, pure, member_run_cache, has_client,
                   runs_cache, mode, nOps>>

NextConc ==
    \/ \E w \in Writers : ConcReadRefs(w)
    \/ \E w \in Writers : ConcStoreRun(w)
    \/ \E w \in Writers : ConcUpsertSession(w)

SpecConc == InitConc /\ [][NextConc]_vars

----------------------------------------------------------------------------
(* RunSeparatedStorageWrapper over a backend whose read and upsert are
   coroutine functions.  _maybe_await calls the function in either branch and
   never awaits: over such a backend every backend call inside the wrapper
   yields a coroutine object.  A coroutine that nobody awaits never runs; the
   one the wrapper returns is awaited by the caller. *)

\* the object an "async def" backend method returns when called
Coroutine(fn, arg) == [__coroutine__ |-> <<fn, arg>>]

IsCoroutine(v) == "__coroutine__" \in DOMAIN v

\* _maybe_await(self.inner.read, key), and self.inner.read(key)
MaybeAwaitRead(is_async, bk, key) ==
    IF is_async THEN Some(Coroutine("read", key)) ELSE InnerRead(bk, key)

\* the caller awaiting what read returned to it
AwaitRead(bk, v) ==
    IF v # None /\ IsCoroutine(v[1])
    THEN InnerRead(bk, v[1].__coroutine__[2]) ELSE v

\* RunSeparatedStorageWrapper.read, then the caller's await
ReadVia(is_async, bk, session_id) ==
    LET result == MaybeAwaitRead(is_async, bk, session_id)
    IN  IF result = None THEN None
        ELSE IF IsSeparatedRun(result[1]) THEN None
        ELSE IF IsOptimizedSession(result[1])
        THEN ReconstructSessionForAgno(bk, result[1], {}).val
        ELSE AwaitRead(bk, result)

\* RunSeparatedStorageWrapper.upsert, then the caller's await of what it
\* returned: the coroutine of the run envelope's upsert is dropped unawaited
UpsertVia(is_async, bk, session) ==
    LET session_id == GetSessionId(session)
        incoming_runs == GetRunsFromSession(session)
    IN  IF incoming_runs = <<>>
        THEN [backend |-> InnerUpsert(bk, MarkSessionOptimized(session, <<>>)),
              session |-> session]
        ELSE
          CHOOSE u \in
            {[backend |->
                InnerUpsert(
                    IF IsNewRun(run_id, refs) /\ ~is_async
                    THEN StoreRunSeparately(bk, run_id, optimized_run) ELSE bk,
                    MarkSessionOptimized(
                        AliasedSession(session, optimized_run),
                        IF IsNewRun(run_id, refs)
                        THEN Append(refs, run_id) ELSE refs)),
              session |-> AliasedSession(session, optimized_run)] :
             refs \in {LET existing_session ==
                               MaybeAwaitRead(is_async, bk, session_id)
                       IN  IF Truthy(existing_session)
                           THEN GetRunReferences(existing_session[1])
                           ELSE <<>>},
             optimized_run \in {OptimizeRunMessages(Last(incoming_runs))},
             run_id \in {GenerateRunId(session_id,
                             OptimizeRunMessages(Last(incoming_runs)))}} : TRUE

InitAsync ==
    /\ inner_async \in BOOLEAN
    /\ inner_fns = {}
    /\ tool = EmptyDict
    /\ hook = EmptyDict
    /\ \E start \in ConcStarts(<<"s1">>) :
          /\ backend = start.backend
          /\ caller = [s \in SessionIds |-> start.session]
    /\ upserted = [s \in SessionIds |-> <<>>]
    /\ pure = [s \in SessionIds |-> FALSE]
    /\ session_cache = {}
    /\ member_run_cache = EmptyDict
    /\ has_client = FALSE
    /\ runs_cache = EmptyDict
    /\ mode = "agent"
    /\ writers = EmptyDict
    /\ nOps = 0
    /\ last = Idle

\* upsert of the caller's session with one more run
AsyncUpsert(sid, run) ==
    /\ nOps < MaxOps
    /\ \E u \in {UpsertVia(inner_async, backend, WithRun(caller[sid], run))} :
          /\ backend' = u.backend
          /\ caller' = [caller EXCEPT ![sid] = u.session]
          /\ last' = [op |-> "a_upsert", sid |-> sid, before |-> backend,
                      arg |-> WithRun(caller[sid], run)]
    /\ session_cache' = ClearSessionCache(session_cache, sid)
    /\ upserted' = [upserted EXCEPT ![sid] = Append(@, run)]
    /\ nOps' = nOps + 1
    /\ UNCHANGED <<inner_fns, tool, hook, inner_async, pure, member_run_cache, has_client, runs_cache,
                   mode, writers>>

\* read of a session id or of the id of a stored run
AsyncRead(id) ==
    /\ last.op # "a_read"
    /\ last' = [op |-> "a_read", id |-> id,
                result |-> ReadVia(inner_async, backend, id)]
    /\ UNCHANGED <<inner_fns, tool, hook, inner_async, backend, session_cache, caller, upserted, pure,
                   member_run_cache, has_client, runs_cache, mode, writers, nOps>>

NextAsync ==
    \/ \E sid \in SessionIds, run \in NewRuns : AsyncUpsert(sid, run)
    \/ \E id \in SessionIds \cup DOMAIN backend : AsyncRead(id)

SpecAsync == InitAsync /\ [][NextAsync]_vars

----------------------------------------------------------------------------
(* save_session and save of RunSeparatedStorageWrapper.  Both separate the
   runs first; the record goes to the backend's method of the same name when
   the backend has one, and to self.upsert otherwise.  The backend's own
   save_session and save store the record they are given. *)

\* fn_name: "save_session" or "save"; fns: the methods the backend defines
SaveResult(bk, session, fn_name, fns) ==
    CHOOSE res \in
        {IF fn_name \in fns
         THEN [backend |-> InnerUpsert(r.backend, r.optimized),
               session |-> r.session]
         ELSE CHOOSE v \in {[backend |-> u.backend, session |-> r.session] :
                  u \in {UpsertResult(r.backend, r.optimized, FALSE)}} : TRUE :
         r \in {ExtractAndSeparateRuns(bk, session, FALSE)}} : TRUE

InitSave ==
    /\ inner_fns \in SUBSET {"save_session", "save"}
    /\ \E start \in ConcStarts(<<"s1">>) :
          /\ backend = start.backend
          /\ caller = [s \in SessionIds |-> start.session]
    /\ upserted = [s \in SessionIds |-> <<>>]
    /\ pure = [s \in SessionIds |-> FALSE]
    /\ session_cache = {}
    /\ member_run_cache = EmptyDict
    /\ has_client = FALSE
    /\ runs_cache = EmptyDict
    /\ mode = "agent"
    /\ inner_async = FALSE
    /\ tool = EmptyDict
    /\ hook = EmptyDict
    /\ writers = EmptyDict
    /\ nOps = 0
    /\ last = Idle

\* fn_name(session) with one new run added to the caller's session
DoSave(sid, run, fn_name) ==
    \E r \in {SaveResult(backend, WithRun(caller[sid], run), fn_name, inner_fns)} :
        /\ nOps < MaxOps
        /\ backend' = r.backend
        /\ session_cache' = IF fn_name \in inner_fns THEN session_cache
                            ELSE ClearSessionCache(session_cache, sid)
        /\ caller' = [caller EXCEPT ![sid] = r.session]
        /\ upserted' = [upserted EXCEPT ![sid] = Append(@, run)]
        /\ nOps' = nOps + 1
        /\ last' = [op |-> fn_name, sid |-> sid, before |-> backend,
                    run |-> run]
        /\ UNCHANGED <<inner_fns, tool, hook, inner_async, pure,
                       member_run_cache, has_client, runs_cache, mode, writers>>

SaveSession(sid, run) == DoSave(sid, run, "save_session")

Save(sid, run) == DoSave(sid, run, "save")

NextSave ==
    \/ \E sid \in SessionIds, run \in NewRuns : SaveSession(sid, run)
    \/ \E sid \in SessionIds, run \in NewRuns : Save(sid, run)
    \/ \E sid \in SessionIds, run \in NewRuns : UpsertNew(sid, run, FALSE)

SpecSave == InitSave /\ [][NextSave]_vars

----------------------------------------------------------------------------
(* The listing operations of RunSeparatedStorageWrapper: each forwards its
   arguments to the backend and returns what the backend returns.  The backend
   lists the records it holds, those of one user when asked for a user, and at
   most limit of them. *)

\* the user a stored record belongs to; the callers' sessions are one user's
RecordUser(record) == Get(record, "user_id", "u1")

\* the keys of the records the backend lists for a user filter
ListedKeys(bk, user) ==
    {k \in DOMAIN bk : user = None \/ RecordUser(bk[k]) = user[1]}

\* the selections of at most limit of these keys a backend may return
LimitedTo(keys, limit) ==
    {T \in SUBSET keys :
        Cardinality(T) = IF Cardinality(keys) < limit
                         THEN Cardinality(keys) ELSE limit}

ListUsers == {None, Some("u1")}

ListLimits == {2, 100}

InitList == InitSave /\ inner_fns = {}

GetAllSessionIds(user) ==
    /\ last.op # "get_all_session_ids"
    /\ last' = [op |-> "get_all_session_ids", user |-> user,
                result |-> ListedKeys(backend, user)]
    /\ UNCHANGED <<inner_fns, tool, hook, inner_async, backend, session_cache,
                   caller, upserted, pure, member_run_cache, has_client,
                   runs_cache, mode, writers, nOps>>

GetAllSessions(user, limit) ==
    /\ last.op # "get_all_sessions"
    /\ \E T \in LimitedTo(ListedKeys(backend, user), limit) :
          last' = [op |-> "get_all_sessions", user |-> user,
                   result |-> {backend[k] : k \in T}]
    /\ UNCHANGED <<inner_fns, tool, hook, inner_async, backend, session_cache,
                   caller, upserted, pure, member_run_cache, has_client,
                   runs_cache, mode, writers, nOps>>

GetRecentSessions(user, limit) ==
    /\ last.op # "get_recent_sessions"
    /\ \E T \in LimitedTo(ListedKeys(backend, user), limit) :
          last' = [op |-> "get_recent_sessions", user |-> user,
                   result |-> {backend[k] : k \in T}]
    /\ UNCHANGED <<inner_fns, tool, hook, inner_async, backend, session_cache,
                   caller, upserted, pure, member_run_cache, has_client,
                   runs_cache, mode, writers, nOps>>

NextList ==
    \/ \E sid \in SessionIds, run \in NewRuns : UpsertNew(sid, run, FALSE)
    \/ \E user \in ListUsers : GetAllSessionIds(user)
    \/ \E user \in ListUsers, limit \in ListLimits : GetAllSessions(user, limit)
    \/ \E user \in ListUsers, limit \in ListLimits : GetRecentSessions(user, limit)

SpecList == InitList /\ [][NextList]_vars

----------------------------------------------------------------------------
(* The run store of RunSeparatedStorageWrapper on its own: _store_run_separately,
   _load_run_from_storage, get_run and read of a run id, for every backend mode *)

Modes == {"agent", "team", "workflow", "workflow_v2"}

\* the session object _store_run_separately builds for the backend's mode
RunEnvelopeFor(storage_mode, run_id, run_data) ==
    CASE storage_mode = "team" ->
           [session_id |-> run_id, team_id |-> "run_storage",
            user_id |-> "run_storage",
            memory |-> ("single_run" :> run_data) @@ ("run_id" :> run_id)
                       @@ ("__is_separated_run" :> TRUE)]
      [] storage_mode = "workflow" ->
           [session_id |-> run_id, workflow_id |-> "run_storage",
            user_id |-> "run_storage",
            memory |-> ("single_run" :> run_data) @@ ("run_id" :> run_id)
                       @@ ("__is_separated_run" :> TRUE)]
      [] storage_mode = "workflow_v2" ->
           [session_id |-> run_id, workflow_id |-> "run_storage",
            user_id |-> "run_storage",
            runs |-> << ("single_run" :> run_data) @@ ("run_id" :> run_id)
                        @@ ("__is_separated_run" :> TRUE) >>]
      [] OTHER -> RunEnvelope(run_id, run_data)

StoreRunSeparatelyIn(storage_mode, bk, run_id, run_data) ==
    InnerUpsert(bk, RunEnvelopeFor(storage_mode, run_id, run_data))

\* the payloads handed to the run store: runs as the pruner leaves them
Payloads == {OptimizeRunMessages(r) : r \in NewRuns}

\* the ids asked for: session ids and the ids of the payloads
KnownIds ==
    SessionIds \cup {GenerateRunId(s, p) : s \in SessionIds, p \in Payloads}

InitRunStore ==
    /\ mode \in Modes
    /\ inner_async = FALSE
    /\ inner_fns = {}
    /\ tool = EmptyDict
    /\ hook = EmptyDict
    /\ \E legacy \in BOOLEAN :
          backend = IF legacy
                    THEN [k \in SessionIds |-> LegacySession(k)] ELSE EmptyDict
    /\ runs_cache = EmptyDict
    /\ caller = [s \in SessionIds |-> FreshSession(s)]
    /\ upserted = [s \in SessionIds |-> <<>>]
    /\ pure = [s \in SessionIds |-> FALSE]
    /\ session_cache = {}
    /\ member_run_cache = EmptyDict
    /\ has_client = FALSE
    /\ writers = EmptyDict
    /\ nOps = 0
    /\ last = Idle

\* _store_run_separately(run_id, payload) for a run of session sid
RsStore(sid, payload) ==
    /\ nOps < MaxOps
    /\ backend' = StoreRunSeparatelyIn(mode, backend,
                      GenerateRunId(sid, payload), payload)
    /\ upserted' = [upserted EXCEPT ![sid] = Append(@, payload)]
    /\ nOps' = nOps + 1
    /\ last' = [op |-> "store", sid |-> sid,
                run_id |-> GenerateRunId(sid, payload), payload |-> payload]
    /\ UNCHANGED <<inner_fns, tool, hook, inner_async, session_cache, caller, pure, member_run_cache, has_client,
                   runs_cache, mode, writers>>

\* _load_run_from_storage(id); fails: the backend read raises
RsLoad(id, fails) ==
    /\ last.op # "load"
    /\ last' = [op |-> "load", id |-> id,
                result |-> LoadRunFromStorage(backend, id,
                               IF fails THEN {id} ELSE {})]
    /\ UNCHANGED <<inner_fns, tool, hook, inner_async, backend, session_cache, caller, upserted, pure,
                   member_run_cache, has_client, runs_cache, mode, writers, nOps>>

\* get_run(session_id, id)
RsGetRun(sid, id, fails) ==
    \E g \in {GetRunResult(backend, runs_cache, sid, id,
                           IF fails THEN {id} ELSE {})} :
        /\ nOps < MaxOps
        /\ runs_cache' = g.cache
        /\ nOps' = nOps + 1
        /\ last' = [op |-> "get_run", sid |-> sid, id |-> id, result |-> g.val]
        /\ UNCHANGED <<inner_fns, tool, hook, inner_async, backend, session_cache, caller, upserted, pure,
                       member_run_cache, has_client, mode, writers>>

\* read(id) where id may be the id of a run
RsRead(id) ==
    /\ last.op # "rs_read"
    /\ last' = [op |-> "rs_read", id |-> id,
                result |-> ReadResult(backend, id, {}).val]
    /\ UNCHANGED <<inner_fns, tool, hook, inner_async, backend, session_cache, caller, upserted, pure,
                   member_run_cache, has_client, runs_cache, mode, writers, nOps>>

NextRunStore ==
    \/ \E sid \in SessionIds, payload \in Payloads : RsStore(sid, payload)
    \/ \E id \in KnownIds, fails \in BOOLEAN : RsLoad(id, fails)
    \/ \E sid \in SessionIds, id \in KnownIds, fails \in BOOLEAN :
          RsGetRun(sid, id, fails)
    \/ \E id \in KnownIds : RsRead(id)
    \/ \E id \in KnownIds : id \in DOMAIN backend /\ DeleteSession(id)

SpecRunStore == InitRunStore /\ [][NextRunStore]_vars

----------------------------------------------------------------------------
(* MCPTool: a node whose fields are set by its user and whose
   provide_instance builds the toolkit *)

\* Python truth value of an optional string
TruthyStr(opt) == opt # None /\ opt[1] # ""

ConnectionModes == {"command", "url", "server_params"}

OptionalStrings(s) == {None, Some(""), Some(s)}

\* MCPTool(): the declared defaults
DefaultTool ==
    [connection_mode |-> "command", command |-> None, url |-> None,
     transport |-> "streamable-http", server_name |-> None, timeout |-> 30,
     auto_connect |-> TRUE]

\* MCPTool.provide_instance; connectFails: mcp_tools.connect() raises
ProvideInstanceResult(t, connectFails) ==
    LET mcp_kwargs == IF TruthyStr(t.server_name)
                      THEN [name |-> t.server_name[1]] ELSE EmptyDict
        connected == [connected |-> t.auto_connect]
    IN  IF t.connection_mode = "command" /\ TruthyStr(t.command)
        THEN IF t.auto_connect /\ connectFails
             THEN [raised |-> "connect", instance |-> None]
             ELSE [raised |-> "none",
                   instance |-> Some([command |-> t.command[1],
                                      timeout_seconds |-> t.timeout]
                                     @@ mcp_kwargs @@ connected)]
        ELSE IF t.connection_mode = "url" /\ TruthyStr(t.url)
        THEN IF t.auto_connect /\ connectFails
             THEN [raised |-> "connect", instance |-> None]
             ELSE [raised |-> "none",
                   instance |-> Some([url |-> t.url[1],
                                      transport |->
                                          IF t.transport = "streamable-http"
                                          THEN "streamable-http" ELSE "sse",
                                      timeout_seconds |-> t.timeout]
                                     @@ mcp_kwargs @@ connected)]
        ELSE [raised |-> "ValueError", instance |-> None]

InitMcp ==
    /\ tool = DefaultTool
    /\ hook = EmptyDict
    /\ backend = EmptyDict
    /\ caller = [s \in SessionIds |-> FreshSession(s)]
    /\ upserted = [s \in SessionIds |-> <<>>]
    /\ pure = [s \in SessionIds |-> FALSE]
    /\ session_cache = {}
    /\ member_run_cache = EmptyDict
    /\ has_client = FALSE
    /\ runs_cache = EmptyDict
    /\ mode = "agent"
    /\ writers = EmptyDict
    /\ inner_async = FALSE
    /\ inner_fns = {}
    /\ nOps = 0
    /\ last = Idle

\* an assignment to one field of the node
SetToolField(field, value) ==
    /\ tool[field] # value
    /\ tool' = [tool EXCEPT ![field] = value]
    /\ last' = [op |-> "set", field |-> field]
    /\ UNCHANGED <<inner_fns, hook, inner_async, backend, session_cache, caller, upserted,
                   pure, member_run_cache, has_client, runs_cache, mode,
                   writers, nOps>>

ProvideInstance(connectFails) ==
    /\ \E r \in {ProvideInstanceResult(tool, connectFails)} :
          /\ connectFails => r.raised = "connect"
          /\ last' = [op |-> "provide_instance", raised |-> r.raised,
                      instance |-> r.instance]
    /\ UNCHANGED <<inner_fns, tool, hook, inner_async, backend, session_cache, caller,
                   upserted, pure, member_run_cache, has_client, runs_cache,
                   mode, writers, nOps>>

NextMcp ==
    \/ \E m \in ConnectionModes : SetToolField("connection_mode", m)
    \/ \E c \in OptionalStrings("uvx mcp-server-git") : SetToolField("command", c)
    \/ \E u \in OptionalStrings("http://localhost:3000") : SetToolField("url", u)
    \/ \E n \in {None, Some("Git MCP Server")} : SetToolField("server_name", n)
    \/ \E tr \in {"streamable-http", "sse"} : SetToolField("transport", tr)
    \/ \E a \in BOOLEAN : SetToolField("auto_connect", a)
    \/ \E connectFails \in BOOLEAN : ProvideInstance(connectFails)

SpecMcp == InitMcp /\ [][NextMcp]_vars

----------------------------------------------------------------------------
(* create_tool_hook and create_team_tool_hook: the hook an agent or a team
   calls around every tool.  One call is followed step by step: the decision
   whether events are sent, the start event, the tool, the storing of the
   result (agent hook only), the end event of the finally block. *)

HookKinds == {"agent", "team"}

\* function_name_to_node_id: a node tool, and a path tool mapped to its own name
FunctionNameToNodeId == ("search" :> "uuid-a") @@ ("read_file" :> "read_file")

FunctionNames == {"search", "read_file", "think"}

\* mcp_toolkits when the agent has an MCP toolkit
McpToolkits == <<[node_id |-> "uuid-b"]>>

\* is_valid_uuid: the ids that start like a UUID
IsValidUuid(node_id) == node_id \in {"uuid-a", "uuid-b"}

\* is_node_tool and node_id, the MCP assumption included
ResolveNode(function_name, mcp_toolkits) ==
    IF function_name \in DOMAIN FunctionNameToNodeId
    THEN [is_node_tool |-> TRUE, node_id |-> FunctionNameToNodeId[function_name]]
    ELSE IF Len(mcp_toolkits) > 0
    THEN [is_node_tool |-> TRUE, node_id |-> mcp_toolkits[1].node_id]
    ELSE [is_node_tool |-> FALSE, node_id |-> function_name]

\* create_tool_hook: is_valid_node; lookup is what context.state.get_node_by_id
\* does: "found", "missing" (None) or "raises" (caught)
IsValidNode(node, lookup) ==
    node.is_node_tool /\ IsValidUuid(node.node_id) /\ lookup = "found"

\* create_team_tool_hook: should_send_events
ShouldSendEvents(node) == node.is_node_tool /\ IsValidUuid(node.node_id)

StartEvent(kind) == IF kind = "agent" THEN "start_tool" ELSE "start_tool_or_member"

EndEvent(kind) == IF kind = "agent" THEN "end_tool" ELSE "end_tool_or_member"

\* the condition of the send in the finally block
SendsEndOnReturn(call) == call.send /\ call.tool = "return"

SendsEnd(call) == call.send

NoCall == [pc |-> "idle"]

InitHook ==
    /\ \E kind \in HookKinds, with_mcp \in BOOLEAN :
          hook = [kind |-> kind,
                  mcp_toolkits |-> IF with_mcp THEN McpToolkits ELSE <<>>,
                  call |-> NoCall, events |-> <<>>, outputs |-> EmptyDict]
    /\ tool = EmptyDict
    /\ backend = EmptyDict
    /\ caller = [s \in SessionIds |-> FreshSession(s)]
    /\ upserted = [s \in SessionIds |-> <<>>]
    /\ pure = [s \in SessionIds |-> FALSE]
    /\ session_cache = {}
    /\ member_run_cache = EmptyDict
    /\ has_client = FALSE
    /\ runs_cache = EmptyDict
    /\ mode = "agent"
    /\ inner_async = FALSE
    /\ inner_fns = {}
    /\ writers = EmptyDict
    /\ nOps = 0
    /\ last = Idle

HookFrame ==
    UNCHANGED <<inner_fns, tool, inner_async, backend, session_cache, caller,
                upserted, pure, member_run_cache, has_client, runs_cache, mode,
                writers>>

\* tool_hook(function_name, function_call, arguments) up to the first
\* statement of wrapper(): has_listener is read there, once
HookCall(function_name, lookup, has_listener) ==
    /\ hook.call.pc = "idle"
    /\ nOps < MaxOps
    /\ \E node \in {ResolveNode(function_name, hook.mcp_toolkits)} :
          hook' = [hook EXCEPT !.call =
              [pc |-> "enter", function_name |-> function_name,
               node_id |-> node.node_id,
               is_valid_node |-> IF hook.kind = "agent"
                                 THEN IsValidNode(node, lookup)
                                 ELSE ShouldSendEvents(node),
               send |-> IF hook.kind = "agent"
                        THEN IsValidNode(node, lookup) /\ has_listener
                        ELSE ShouldSendEvents(node),
               invoked |-> 0, tool |-> "pending", raised |-> FALSE,
               sent |-> <<>>]]
    /\ nOps' = nOps + 1
    /\ last' = [op |-> "hook_call"]
    /\ HookFrame

\* the send_flow_event before the try
HookSendStart ==
    /\ hook.call.pc = "enter"
    /\ \E ev \in {IF hook.call.send
                  THEN <<[event_type |-> StartEvent(hook.kind),
                          node_id |-> hook.call.node_id]>>
                  ELSE <<>>} :
          hook' = [hook EXCEPT !.events = @ \o ev,
                               !.call = [@ EXCEPT !.pc = "try", !.sent = @ \o ev]]
    /\ last' = [op |-> "hook_start"]
    /\ UNCHANGED nOps
    /\ HookFrame

\* function_call(**arguments), awaited when it gave a coroutine
HookRunTool(outcome) ==
    /\ hook.call.pc = "try"
    /\ hook' = [hook EXCEPT !.call =
                   [@ EXCEPT !.pc = IF outcome = "return" /\ hook.kind = "agent"
                                    THEN "store" ELSE "finally",
                             !.invoked = @ + 1,
                             !.tool = outcome,
                             !.raised = (outcome = "raise")]]
    /\ last' = [op |-> "hook_tool"]
    /\ UNCHANGED nOps
    /\ HookFrame

\* create_tool_hook only: context.storage.set_node_variable_value for a
\* valid node; storeFails: that call raises
HookStoreResult(storeFails) ==
    /\ hook.call.pc = "store"
    /\ storeFails => hook.call.is_valid_node
    /\ hook' = [hook EXCEPT
          !.outputs = IF hook.call.is_valid_node /\ ~storeFails
                      THEN Put(@, hook.call.node_id, hook.call.function_name)
                      ELSE @,
          !.call = [@ EXCEPT !.pc = "finally", !.raised = storeFails]]
    /\ last' = [op |-> "hook_store"]
    /\ UNCHANGED nOps
    /\ HookFrame

\* the finally block, and the return or re-raise to the caller
HookFinally ==
    /\ hook.call.pc = "finally"
    /\ \E ev \in {IF SendsEnd(hook.call)
                  THEN <<[event_type |-> EndEvent(hook.kind),
                          node_id |-> hook.call.node_id]>>
                  ELSE <<>>} :
          /\ hook' = [hook EXCEPT !.events = @ \o ev, !.call = NoCall]
          /\ last' = [op |-> "hook_done", kind |-> hook.kind,
                      node_id |-> hook.call.node_id, send |-> hook.call.send,
                      invoked |-> hook.call.invoked, tool |-> hook.call.tool,
                      raised |-> hook.call.raised,
                      sent |-> hook.call.sent \o ev]
    /\ UNCHANGED nOps
    /\ HookFrame

NextHook ==
    \/ \E function_name \in FunctionNames,
          lookup \in {"found", "missing", "raises"}, has_listener \in BOOLEAN :
          HookCall(function_name, lookup, has_listener)
    \/ HookSendStart
    \/ \E outcome \in {"return", "raise"} : HookRunTool(outcome)
    \/ \E storeFails \in BOOLEAN : HookStoreResult(storeFails)
    \/ HookFinally

SpecHook == InitHook /\ [][NextHook]_vars

----------------------------------------------------------------------------
(* RunSeparatedDbWrapper: sessions are objects with id, user_id, runs and
   metadata; runs are dicts; the table holds sessions under <<id>> and run
   items under <<"__run__", run_id>> *)

DbSessionIds == {"t1", "t2"}

\* json.dumps(v, default=str) followed by json.loads: a value JSON cannot
\* carry comes back as its str()
JsonValue(v) == IF v = "<datetime>" THEN "2024-01-01 00:00:00" ELSE v

\* _serialize_run of a dict run, inner_db having no serializer of its own
SerializeRun(run) == <<"json", [x \in DOMAIN run |-> JsonValue(run[x])]>>

\* _deserialize_run
DeserializeRun(run_data_str) == run_data_str[2]

\* str(run.get('run_id', 'unknown'))
DbGetRunId(run) == Get(run, "run_id", "unknown")

DbGetRunsFromSession(session) == session.runs

ShouldOptimizeSession(session) == DbGetRunsFromSession(session) # <<>>

\* metadata and metadata.get('__runs_separated') is True
DbIsOptimizedSession(session) ==
    /\ DOMAIN session.metadata # {}
    /\ Get(session.metadata, "__runs_separated", FALSE) = TRUE

SeparatedRunIds(session) == Get(session.metadata, "__separated_run_ids", <<>>)

RunStorageId(run_id) == <<"__run__", run_id>>

\* the Item of table.put_item
RunItem(session, run) ==
    [session_id |-> RunStorageId(DbGetRunId(run)),
     id |-> RunStorageId(DbGetRunId(run)),
     user_id |-> session.user_id,
     run_data |-> SerializeRun(run),
     is_run_storage |-> TRUE,
     original_session_id |-> session.id]

\* inner_db.get_session / inner_db.upsert_session / inner_db.delete_session
DbInnerGet(table, session_id) == InnerRead(table, <<session_id>>)

DbInnerUpsert(table, session) == Put(table, <<session.id>>, session)

DbInnerDelete(table, session_id) == Pop(table, <<session_id>>)

\* the put_item of one new run: skipped without a client, swallowed when it raises
PutItem(table, client, session, run, putFails) ==
    IF client /\ DbGetRunId(run) \notin putFails
    THEN Put(table, RunStorageId(DbGetRunId(run)), RunItem(session, run))
    ELSE table

\* one pass of "for i, run in enumerate(runs)"
StoreRunStep(acc, client, session, existing_run_ids, run, putFails) ==
    IF InSeq(DbGetRunId(run), existing_run_ids)
    THEN acc
    ELSE [all_run_ids |-> Append(acc.all_run_ids, DbGetRunId(run)),
          cache |-> Put(acc.cache, DbGetRunId(run), run),
          table |-> PutItem(acc.table, client, session, run, putFails)]

RECURSIVE StoreRuns(_, _, _, _, _, _)
StoreRuns(acc, client, session, existing_run_ids, n, putFails) ==
    IF n = 0 THEN acc
    ELSE CHOOSE r \in
           {StoreRunStep(a, client, session, existing_run_ids,
                         DbGetRunsFromSession(session)[n], putFails) :
              a \in {StoreRuns(acc, client, session, existing_run_ids,
                               n - 1, putFails)}} : TRUE

\* RunSeparatedDbWrapper._optimize_team_session; getFails: the lookup of the
\* stored session raises (and is swallowed)
OptimizeTeamSession(table, cache, client, session, getFails, putFails) ==
    LET existing_session ==
            IF getFails THEN None ELSE DbInnerGet(table, session.id)
        existing_run_ids ==
            IF existing_session # None /\ DbIsOptimizedSession(existing_session[1])
            THEN SeparatedRunIds(existing_session[1]) ELSE <<>>
    IN  CHOOSE res \in
          {[optimized |->
               [session EXCEPT
                   !.metadata = Put(Put(session.metadata, "__separated_run_ids",
                                        acc.all_run_ids),
                                    "__runs_separated", TRUE),
                   !.runs = <<>>],
            cache |-> acc.cache,
            table |-> acc.table] :
           acc \in {StoreRuns([all_run_ids |-> existing_run_ids,
                               cache |-> cache, table |-> table],
                              client, session, existing_run_ids,
                              Len(DbGetRunsFromSession(session)), putFails)}} : TRUE

\* RunSeparatedDbWrapper.upsert_session; optimizeRaises: the deep copy in
\* _optimize_team_session raises, and the except branch stores the raw session
DbUpsertResult(table, cache, scache, client, session, optimizeRaises, getFails, putFails) ==
    IF ~ShouldOptimizeSession(session) \/ optimizeRaises
    THEN [table |-> DbInnerUpsert(table, session), cache |-> cache,
          scache |-> scache, stored |-> session]
    ELSE CHOOSE u \in
           {[table |-> DbInnerUpsert(o.table, o.optimized),
             cache |-> o.cache,
             scache |-> Pop(scache, <<session.id, session.user_id>>),
             stored |-> o.optimized] :
            o \in {OptimizeTeamSession(table, cache, client, session,
                                       getFails, putFails)}} : TRUE

\* one pass of "for run_id in run_ids": the member cache first, the table next
LoadRunStep(acc, table, client, run_id, getFails) ==
    IF run_id \in DOMAIN acc.cache /\ DOMAIN acc.cache[run_id] # {}
    THEN [acc EXCEPT !.runs = Append(@, acc.cache[run_id])]
    ELSE IF /\ client
            /\ run_id \notin getFails
            /\ RunStorageId(run_id) \in DOMAIN table
            /\ Get(table[RunStorageId(run_id)], "is_run_storage", FALSE) = TRUE
            /\ HasKey(table[RunStorageId(run_id)], "run_data")
    THEN [runs |-> Append(acc.runs,
                     DeserializeRun(table[RunStorageId(run_id)].run_data)),
          cache |-> Put(acc.cache, run_id,
                     DeserializeRun(table[RunStorageId(run_id)].run_data))]
    ELSE acc

RECURSIVE LoadRuns(_, _, _, _, _, _)
LoadRuns(acc, table, client, run_ids, n, getFails) ==
    IF n = 0 THEN acc
    ELSE CHOOSE r \in
           {LoadRunStep(a, table, client, run_ids[n], getFails) :
              a \in {LoadRuns(acc, table, client, run_ids, n - 1, getFails)}} : TRUE

\* metadata without the separation markers; None when nothing is left
CleanMetadata(metadata) ==
    Pop(Pop(metadata, "__separated_run_ids"), "__runs_separated")

\* RunSeparatedDbWrapper._reconstruct_team_session
ReconstructTeamSession(table, cache, client, session, getFails) ==
    IF SeparatedRunIds(session) = <<>>
    THEN [session |-> session, cache |-> cache]
    ELSE CHOOSE res \in
           {[session |-> [session EXCEPT
                             !.runs = acc.runs,
                             !.metadata = IF DOMAIN session.metadata # {}
                                          THEN CleanMetadata(session.metadata)
                                          ELSE session.metadata],
             cache |-> acc.cache] :
            acc \in {LoadRuns([runs |-> <<>>, cache |-> cache], table, client,
                              SeparatedRunIds(session),
                              Len(SeparatedRunIds(session)), getFails)}} : TRUE

\* f"{session_id}_{user_id or 'default'}"; user_id None is "none" here
CacheKey(session_id, user_id) ==
    <<session_id, IF user_id = "none" THEN "default" ELSE user_id>>

\* RunSeparatedDbWrapper.get_session
DbGetResult(table, cache, scache, client, session_id, user_id, getFails) ==
    IF CacheKey(session_id, user_id) \in DOMAIN scache
    THEN [val |-> Some(scache[CacheKey(session_id, user_id)]),
          cache |-> cache, scache |-> scache, hit |-> TRUE]
    ELSE IF DbInnerGet(table, session_id) = None
    THEN [val |-> None, cache |-> cache, scache |-> scache, hit |-> FALSE]
    ELSE CHOOSE g \in
           {[val |-> Some(r.session),
             cache |-> r.cache,
             scache |-> Put(scache, CacheKey(session_id, user_id), r.session),
             hit |-> FALSE] :
            r \in {IF DbIsOptimizedSession(DbInnerGet(table, session_id)[1])
                   THEN ReconstructTeamSession(table, cache, client,
                            DbInnerGet(table, session_id)[1], getFails)
                   ELSE [session |-> DbInnerGet(table, session_id)[1],
                         cache |-> cache]}} : TRUE

\* [k for k in self.session_cache.keys() if k.startswith(session_id)] removed
DbClearSessionCache(scache, session_id) ==
    [k \in {x \in DOMAIN scache : x[1] # session_id} |-> scache[k]]

(* Inputs *)

DbRuns ==
    { ("run_id" :> "r1") @@ ("content" :> "a"),
      ("run_id" :> "r2") @@ ("content" :> "b") @@ ("created_at" :> "<datetime>"),
      ("content" :> "c") }

DbUsers == {"none", "u1"}

\* the runs of one session carry its id in a field of their own, so that a
\* run can be told from the run of another session with the same run_id
DbRunsOf(sid) == {Put(r, "session", sid) : r \in DbRuns}

DbFreshSession(sid) ==
    [id |-> sid, user_id |-> "u1", runs |-> <<>>, metadata |-> EmptyDict]

InitDb ==
    /\ backend = EmptyDict
    /\ session_cache = EmptyDict
    /\ member_run_cache = EmptyDict
    /\ has_client \in BOOLEAN
    /\ runs_cache = EmptyDict
    /\ mode = "agent"
    /\ inner_async = FALSE
    /\ inner_fns = {}
    /\ tool = EmptyDict
    /\ hook = EmptyDict
    /\ writers = EmptyDict
    /\ caller = [s \in DbSessionIds |-> DbFreshSession(s)]
    /\ upserted = [s \in DbSessionIds |-> <<>>]
    /\ pure = [s \in DbSessionIds |-> TRUE]
    /\ nOps = 0
    /\ last = Idle

\* upsert_session(session) in a process whose caches are as they stand
DbDoUpsert(sid, session, optimizeRaises, getFails, putFails) ==
    \E r \in {DbUpsertResult(backend, member_run_cache, session_cache,
                             has_client, session, optimizeRaises, getFails,
                             putFails)} :
        /\ nOps < MaxOps
        /\ backend' = r.table
        /\ member_run_cache' = r.cache
        /\ session_cache' = r.scache
        /\ caller' = [caller EXCEPT ![sid] = session]
        /\ upserted' = [upserted EXCEPT ![sid] = session.runs]
        /\ nOps' = nOps + 1
        /\ last' = [op |-> "db_upsert", sid |-> sid, arg |-> session,
                    stored |-> r.stored,
                    optimized |-> ShouldOptimizeSession(session) /\ ~optimizeRaises,
                    wasOptimized |-> /\ <<sid>> \in DOMAIN backend
                                     /\ DbIsOptimizedSession(backend[<<sid>>])]
        /\ UNCHANGED <<inner_fns, tool, hook, inner_async, pure, has_client,
                   runs_cache, mode, writers>>

DbUpsertNew(sid, run, optimizeRaises, getFails, putFails) ==
    DbDoUpsert(sid, [caller[sid] EXCEPT !.runs = Append(@, run)],
               optimizeRaises, getFails, putFails)

DbUpsertSame(sid, optimizeRaises, getFails) ==
    DbDoUpsert(sid, caller[sid], optimizeRaises, getFails, {})

\* get_session(session_id, session_type, user_id)
DbGetSession(sid, user_id, getFails) ==
    \E r \in {DbGetResult(backend, member_run_cache, session_cache, has_client,
                          sid, user_id, getFails)} :
        /\ nOps < MaxOps
        /\ member_run_cache' = r.cache
        /\ session_cache' = r.scache
        /\ nOps' = nOps + 1
        /\ last' = [op |-> "db_get", sid |-> sid, result |-> r.val, hit |-> r.hit,
                    failing |-> getFails,
                    fresh |-> DOMAIN session_cache = {} /\ DOMAIN member_run_cache = {}]
        /\ UNCHANGED <<inner_fns, tool, hook, inner_async, backend, caller, upserted, pure, has_client,
                   runs_cache, mode, writers>>

\* RunSeparatedDbWrapper.delete_session
DbDeleteSession(sid) ==
    /\ nOps < MaxOps
    /\ <<sid>> \in DOMAIN backend
    /\ backend' = DbInnerDelete(backend, sid)
    /\ session_cache' = DbClearSessionCache(session_cache, sid)
    /\ nOps' = nOps + 1
    /\ last' = [op |-> "db_delete", sid |-> sid,
                run_ids |-> SeparatedRunIds(backend[<<sid>>])]
    /\ UNCHANGED <<inner_fns, tool, hook, inner_async, caller, upserted, pure, member_run_cache, has_client,
                   runs_cache, mode, writers>>

\* the process ends and another one takes over: the caches start empty
DbRestart ==
    /\ DOMAIN session_cache # {} \/ DOMAIN member_run_cache # {}
    /\ session_cache' = EmptyDict
    /\ member_run_cache' = EmptyDict
    /\ last' = [op |-> "db_restart"]
    /\ UNCHANGED <<inner_fns, tool, hook, inner_async, backend, caller, upserted, pure, has_client, nOps,
                   runs_cache, mode, writers>>

StoredRunIds(sid) ==
    IF <<sid>> \in DOMAIN backend THEN SeparatedRunIds(backend[<<sid>>]) ELSE <<>>

NextDb ==
    \/ \E sid \in DbSessionIds, optimizeRaises, getFails \in BOOLEAN :
          \E run \in DbRunsOf(sid) :
             \E putFails \in SUBSET {DbGetRunId(run)} :
                DbUpsertNew(sid, run, optimizeRaises, getFails, putFails)
    \/ \E sid \in DbSessionIds, optimizeRaises, getFails \in BOOLEAN :
          DbUpsertSame(sid, optimizeRaises, getFails)
    \/ \E sid \in DbSessionIds, user_id \in DbUsers :
          \E getFails \in SubsetsUpTo({StoredRunIds(sid)[i] :
                                          i \in DOMAIN StoredRunIds(sid)}, 1) :
             DbGetSession(sid, user_id, getFails)
    \/ \E sid \in DbSessionIds : DbDeleteSession(sid)
    \/ DbRestart

SpecDb == InitDb /\ [][NextDb]_vars

----------------------------------------------------------------------------
(* What the operations are expected to do, stated without the code's steps *)

\* the last n elements of s, all of s when it has fewer
LastN(s, n) ==
    LET m == IF Len(s) < n THEN Len(s) ELSE n
    IN  [i \in 1..m |-> s[Len(s) - m + i]]

MaxOf(S) == CHOOSE i \in S : \A j \in S : j <= i

\* the elements of an index set in ascending order
Ascending(S) ==
    [k \in 1..Cardinality(S) |->
        CHOOSE i \in S : Cardinality({j \in S : j <= i}) = k]

\* positions of the messages that pruning must keep
ExpectedKeptIdx(messages) ==
    LET E == {i \in 1..Len(messages) :
                 /\ "role" \in DOMAIN messages[i]
                 /\ messages[i].role \in {"user", "assistant"}
                 /\ ~("from_history" \in DOMAIN messages[i]
                        /\ messages[i].from_history = TRUE)}
        U == {i \in E : messages[i].role = "user"}
        A == {i \in E : messages[i].role = "assistant"}
    IN  (IF U = {} THEN {} ELSE {MaxOf(U)}) \cup (IF A = {} THEN {} ELSE {MaxOf(A)})

Stripped(m) == [x \in (DOMAIN m) \ {"metrics", "from_history"} |-> m[x]]

ExpectedPrunedMessages(messages) ==
    LET idx == Ascending(ExpectedKeptIdx(messages))
    IN  [k \in 1..Len(idx) |-> Stripped(messages[idx[k]])]

ExpectedPrunedRun(run) ==
    [run EXCEPT !.messages = ExpectedPrunedMessages(run.messages)]

\* a sequence without the later copies of its elements
FirstOccurrences(s) ==
    LET idx == Ascending({i \in 1..Len(s) : \A j \in 1..(i - 1) : s[j] # s[i]})
    IN  [k \in 1..Len(idx) |-> s[idx[k]]]

ExpectedRunsOf(sid) ==
    [i \in 1..Len(upserted[sid]) |-> ExpectedPrunedRun(upserted[sid][i])]

ExpectedRunId(sid, run) == <<"run">> \o sid \o <<ExpectedPrunedRun(run)>>

\* the reference list of the session record in a backend snapshot
RefsIn(bk, sid) ==
    IF sid \in DOMAIN bk /\ "run_references" \in DOMAIN bk[sid].memory
    THEN bk[sid].memory.run_references ELSE <<>>

MarkerKeys == {"run_references", "__run_separated", "__migrated_at", "__last_updated"}

\* a read of a session built by one-new-run upserts only, none of its records
\* deleted since, and no load raising
CleanRead ==
    /\ last.op = "read"
    /\ pure[last.sid]
    /\ upserted[last.sid] # <<>>
    /\ last.failing = {}

----------------------------------------------------------------------------
(* Claims on RunSeparatedStorageWrapper *)

\* C1 as stated: after successive upserts of one session that each resend the
\* run list plus one new run, read returns the session with runs equal, in
\* order, to the pruned forms of the last min(k, 20) runs upserted.
C1_RoundTripAsStated ==
    CleanRead =>
        /\ ~last.result.exc
        /\ last.result.val # None
        /\ last.result.val[1].memory.runs =
               LastN(ExpectedRunsOf(last.sid), MaxRunsWindow)

\* C1: the same round trip, counting a run whose pruned form equals that of an
\* earlier run of the session once, at the earlier position: read returns the
\* last min(d, 20) of the d distinct pruned runs, in order of first upsert.
C1_RoundTrip ==
    CleanRead =>
        /\ ~last.result.exc
        /\ last.result.val # None
        /\ last.result.val[1].memory.runs =
               LastN(FirstOccurrences(ExpectedRunsOf(last.sid)), MaxRunsWindow)

\* more than 20 distinct runs upserted, one of them pruned equal to an earlier one
C1_Witness ==
    /\ CleanRead
    /\ Len(FirstOccurrences(ExpectedRunsOf(last.sid))) > MaxRunsWindow
    /\ Len(FirstOccurrences(ExpectedRunsOf(last.sid))) < Len(upserted[last.sid])
    /\ Len(last.result.val[1].memory.runs) = MaxRunsWindow

\* C2 as stated: every session record the wrapper hands to the backend has
\* runs = [], the marker set, and run_references listing the ids of all runs
\* ever upserted for that session id.
C2_StoredSessionInvariant ==
    last.op = "upsert" =>
        /\ last.stored.memory.runs = <<>>
        /\ last.stored.memory["__run_separated"] = TRUE
        /\ \A i \in 1..Len(upserted[last.sid]) :
               InSeq(ExpectedRunId(last.sid, upserted[last.sid][i]),
                     last.stored.memory.run_references)

\* C5: upserting the unchanged session again right after an upsert derives the
\* same run id, writes no run record, and leaves the stored reference list as
\* it was, free of duplicates.
C5_UpsertIdempotent ==
    (/\ last.op = "upsert" /\ last.kind = "same" /\ last.inRow
     /\ last.prevRunId # None) =>
        /\ last.run_id = last.prevRunId
        /\ last.writes = <<last.sid>>
        /\ last.stored.memory.run_references =
               last.before[last.sid].memory.run_references
        /\ backend[last.sid].memory.run_references =
               last.before[last.sid].memory.run_references
        /\ NoDup(backend[last.sid].memory.run_references)
        /\ \A k \in DOMAIN last.before :
               k # last.sid => k \in DOMAIN backend /\ backend[k] = last.before[k]

C5_Witness ==
    /\ last.op = "upsert" /\ last.kind = "same" /\ last.inRow
    /\ last.prevRunId # None
    /\ Len(backend[last.sid].memory.run_references) >= 1
    /\ last.run_id[1][3].messages # <<>>

\* an upsert of one more run onto a session the backend holds in optimized form
IncrementalUpsert ==
    /\ last.op = "upsert" /\ last.kind = "new"
    /\ last.sid \in DOMAIN last.before
    /\ "__run_separated" \in DOMAIN last.before[last.sid].memory
    /\ last.before[last.sid].memory["__run_separated"] = TRUE

\* C6 as stated: with k run references stored, upsert with one new run stores
\* exactly k+1 references, the earlier k unchanged and in order, and writes one
\* run record without touching the earlier ones.
C6_IncrementalAsStated ==
    IncrementalUpsert =>
        LET old == last.before[last.sid].memory.run_references
            new == ExpectedRunId(last.sid, Last(upserted[last.sid]))
        IN  /\ backend[last.sid].memory.run_references = Append(old, new)
            /\ last.writes = <<new, last.sid>>
            /\ \A i \in 1..Len(old) :
                   old[i] \in DOMAIN last.before =>
                       /\ old[i] \in DOMAIN backend
                       /\ backend[old[i]] = last.before[old[i]]

\* C6: the same, when the new run's id is not among the k stored references;
\* when it is, the reference list stays as it was and no run record is written.
\* Either way the earlier run records are untouched.
C6_Incremental ==
    IncrementalUpsert =>
        LET old == last.before[last.sid].memory.run_references
            new == ExpectedRunId(last.sid, Last(upserted[last.sid]))
        IN  /\ IF InSeq(new, old)
               THEN /\ backend[last.sid].memory.run_references = old
                    /\ last.writes = <<last.sid>>
               ELSE /\ backend[last.sid].memory.run_references = Append(old, new)
                    /\ last.writes = <<new, last.sid>>
                    /\ new \in DOMAIN backend
                    /\ backend[new].memory.single_run =
                           ExpectedPrunedRun(Last(upserted[last.sid]))
            /\ \A k \in DOMAIN last.before :
                   k \notin {new, last.sid} =>
                       k \in DOMAIN backend /\ backend[k] = last.before[k]

C6_Witness ==
    /\ IncrementalUpsert
    /\ Len(last.before[last.sid].memory.run_references) >= 1
    /\ Len(backend[last.sid].memory.run_references) =
           Len(last.before[last.sid].memory.run_references) + 1
    /\ last.writes = <<last.run_id[1], last.sid>>

\* a read that found a stored record carrying neither marker
LegacyRead ==
    /\ last.op = "read"
    /\ last.sid \in DOMAIN backend
    /\ "__run_separated" \notin DOMAIN backend[last.sid].memory
    /\ "__is_separated_run" \notin DOMAIN backend[last.sid].memory

\* C7: reading a record without the optimized marker returns it unchanged,
\* embedded runs included, loading no run and writing nothing.
C7_LegacyPassThrough ==
    LegacyRead =>
        /\ ~last.result.exc
        /\ last.result.val = <<backend[last.sid]>>
        /\ last.result.loads = <<>>
        /\ ~last.wrote

C7_Witness ==
    /\ LegacyRead
    /\ last.result.val # None
    /\ Len(last.result.val[1].memory.runs) = Len(LegacyRuns)

\* a read that found an optimized session with at least one reference
OptimizedRead ==
    /\ last.op = "read"
    /\ last.sid \in DOMAIN backend
    /\ "__run_separated" \in DOMAIN backend[last.sid].memory
    /\ backend[last.sid].memory["__run_separated"] = TRUE
    /\ backend[last.sid].memory.run_references # <<>>

\* the references a read selects, and whether a run record can be loaded
Selected == LastN(backend[last.sid].memory.run_references, MaxRunsWindow)

Loadable(ref) == ref \in DOMAIN backend /\ ref \notin last.failing

\* C8: when m of the n selected run records are missing or fail to load, read
\* still returns the session with the other n - m runs in their order, and
\* does not raise.
C8_PartialFailure ==
    OptimizedRead =>
        LET ok == SelectSeq(Selected, Loadable)
        IN  /\ ~last.result.exc
            /\ last.result.val # None
            /\ last.result.val[1].memory.runs =
                   [i \in 1..Len(ok) |-> backend[ok[i]].memory.single_run]

\* one selected record missing, another raising, the rest returned
C8_Witness ==
    /\ OptimizedRead
    /\ \E r \in DOMAIN Selected : Selected[r] \notin DOMAIN backend
    /\ \E r \in DOMAIN Selected :
           Selected[r] \in DOMAIN backend /\ Selected[r] \in last.failing
    /\ last.result.val # None
    /\ Len(last.result.val[1].memory.runs) >= 1
    /\ Len(last.result.val[1].memory.runs) < Len(Selected)

\* C9 as stated: upsert leaves the session object it was given as it was.
C9_CallerSessionUntouched ==
    last.op = "upsert" => last.argAfter = last.argBefore

\* C10 as stated: what read returns for an optimized session carries none of
\* the marker keys, an empty reference list included.
C10_NoMarkersReturned ==
    (/\ last.op = "read"
     /\ last.sid \in DOMAIN backend
     /\ "__run_separated" \in DOMAIN backend[last.sid].memory
     /\ backend[last.sid].memory["__run_separated"] = TRUE
     /\ last.result.val # None) =>
        DOMAIN last.result.val[1].memory \cap MarkerKeys = {}

----------------------------------------------------------------------------
(* Claim on the message pruners *)

\* C3: both pruners return, for every message list, the last user message and
\* the last assistant message among those with a chat role and from_history not
\* true, in their original order, and nothing else: at most two messages, none
\* with another role or replayed, and none at all when no message is eligible.
C3_Pruning ==
    last.op \in {"optimize_run_messages", "prune_all_runs"} =>
        \A r \in DOMAIN last.result :
            LET in == last.input[r]
                out == last.result[r]
                idx == Ascending(ExpectedKeptIdx(in))
            IN  /\ Len(out) <= 2
                /\ Len(out) = Len(idx)
                /\ \A k \in DOMAIN out : out[k] = Stripped(in[idx[k]])
                /\ \A k \in DOMAIN out : out[k].role \in {"user", "assistant"}
                /\ ExpectedKeptIdx(in) = {} => out = <<>>

\* an assistant reply between two user messages: the reply comes first
C3_Witness ==
    /\ last.op = "optimize_run_messages"
    /\ Len(last.input[1]) = 3
    /\ last.result[1] = <<Msg("assistant", "x"), Msg("user", "y")>>
    /\ last.input[1][1] = FromHistory(WithMetrics(Msg("user", "x")), FALSE)
    /\ "metrics" \in DOMAIN last.input[1][2]

----------------------------------------------------------------------------
(* Claim on RunSeparatedDbWrapper *)

\* C4 as stated: once upsert_session has returned, every run id the stored
\* session lists in __separated_run_ids has its run item in the table, and
\* get_session in a fresh process returns as many runs as the stored session
\* lists, whether or not a run write failed or was skipped.
C4_NoDataLoss ==
    /\ (last.op = "db_upsert" /\ last.optimized) =>
          \A i \in DOMAIN SeparatedRunIds(last.stored) :
              RunStorageId(SeparatedRunIds(last.stored)[i]) \in DOMAIN backend
    /\ (last.op = "db_get" /\ last.fresh /\ last.failing = {}
           /\ last.result # None) =>
          Len(last.result[1].runs) >= Len(StoredRunIds(last.sid))

----------------------------------------------------------------------------
(* Claims on failures during a write *)

\* C11 as stated (storage wrapper side): when the optimize-and-extract step
\* of upsert raises, the call still returns normally and the backend holds the
\* caller's original, unoptimized session.
C11_FallbackStoresOriginal ==
    last.op = "upsert_raised" =>
        /\ ~last.raised
        /\ last.sid \in DOMAIN backend
        /\ backend[last.sid] = last.argBefore

\* C12: when the write of the separated run raises, upsert raises, the run
\* write was attempted once and nothing else was written: the backend, the
\* session record of that id included, is what it was before the call.
C12_RunWriteFailure ==
    last.op = "upsert_raised" =>
        /\ last.raised
        /\ last.writes = <<last.run_id[1]>>
        /\ backend = last.before
        /\ (last.sid \in DOMAIN last.before =>
               backend[last.sid] = last.before[last.sid])

\* the failed write hit a session that already had stored references
C12_Witness ==
    /\ last.op = "upsert_raised"
    /\ last.sid \in DOMAIN backend
    /\ "run_references" \in DOMAIN backend[last.sid].memory
    /\ Len(backend[last.sid].memory.run_references) >= 1
    /\ last.run_id[1] \notin DOMAIN backend

----------------------------------------------------------------------------
(* Claims on the session state machine, the caches and run ownership *)

\* C13 as stated (Db wrapper side): once the backend holds a record with the
\* optimization marker for a session id, no later upsert_session replaces it
\* with a record lacking the marker.
C13_NeverBackToLegacy ==
    (last.op = "db_upsert" /\ last.wasOptimized) =>
        /\ "__runs_separated" \in DOMAIN backend[<<last.sid>>].metadata
        /\ backend[<<last.sid>>].metadata["__runs_separated"] = TRUE

\* C14 as stated (Db wrapper side): after delete_session(id) no session-cache
\* entry of id and no cached run of the session stored under id remains.
C14_DeleteCleansCaches ==
    last.op = "db_delete" =>
        /\ \A k \in DOMAIN session_cache : k[1] # last.sid
        /\ \A i \in DOMAIN last.run_ids :
               last.run_ids[i] \notin DOMAIN member_run_cache

\* C15 as stated: after upsert_session(S) the session cache holds no entry
\* for S's session id, whatever user_id the entry was cached under.
C15_UpsertInvalidatesCache ==
    last.op = "db_upsert" =>
        \A k \in DOMAIN session_cache : k[1] # last.sid

\* C19 as stated (Db wrapper side): every run that get_session returns in
\* session A was upserted as a run of session A, as written or as its JSON
\* round trip.
C19_NoCrossSessionRuns ==
    (last.op = "db_get" /\ last.result # None) =>
        \A i \in DOMAIN last.result[1].runs :
            \E j \in DOMAIN upserted[last.sid] :
                \/ last.result[1].runs[i] = upserted[last.sid][j]
                \/ last.result[1].runs[i] = DeserializeRun(SerializeRun(upserted[last.sid][j]))

----------------------------------------------------------------------------
(* Claims on the run store *)

\* C16 as stated: in every backend mode, once _store_run_separately(run_id,
\* payload) has succeeded the stored envelope has the id run_id, and both
\* _load_run_from_storage(run_id) and get_run(session_id, run_id) return payload.
C16_RunStorePutGet ==
    last.op = "store" =>
        /\ last.run_id \in DOMAIN backend
        /\ backend[last.run_id].session_id = last.run_id
        /\ LoadRunFromStorage(backend, last.run_id, {}).val = <<last.payload>>
        /\ GetRunResult(backend, runs_cache, last.sid, last.run_id, {}).val
               = <<last.payload>>

\* the ids under which the run store holds an envelope it wrote
EnvelopeIds ==
    {id \in DOMAIN backend :
        \E s \in SessionIds : \E i \in DOMAIN upserted[s] :
            id = GenerateRunId(s, upserted[s][i])}

\* the backend has no record under id, or one whose memory has no marker
UnknownOrUnmarked(id) ==
    \/ id \notin DOMAIN backend
    \/ "memory" \notin DOMAIN backend[id]
    \/ "__is_separated_run" \notin DOMAIN backend[id].memory

\* C17 as stated: read(id) is None whenever the record under id is a
\* separated-run envelope, and _load_run_from_storage(id) and get_run(.., id)
\* are None, without an error, whenever id is unknown or its record lacks the
\* separated-run marker.
C17_MarkerChecked ==
    /\ (last.op = "rs_read" /\ last.id \in EnvelopeIds) => last.result = None
    /\ (last.op = "load" /\ UnknownOrUnmarked(last.id)) =>
          (~last.result.exc /\ last.result.val = None)
    /\ (last.op = "get_run" /\ UnknownOrUnmarked(last.id)) => last.result = None

----------------------------------------------------------------------------
(* Claims on the representation of runs and messages *)

\* C18 as stated: pruning an object-attribute run or message raises no error
\* and keeps the same messages as pruning the equivalent mapping, each kept
\* message being without metrics and from_history.
C18_RepresentationIndependent ==
    last.op \in {"optimize_as", "delta_prune_as"} =>
        /\ ~last.raised
        /\ last.result = ExpectedPrunedMessages(last.input)

----------------------------------------------------------------------------
(* Claims on concurrent upserts *)

\* both callers read the reference list before either wrote the session, and
\* they add different runs, neither stored before
Interleaved ==
    /\ \A w \in Writers : writers[w].pc = "done"
    /\ writers["w1"].run_id # writers["w2"].run_id
    /\ \A w \in Writers : \A v \in Writers :
          ~InSeq(writers[v].run_id[1], RefsIn(writers[w].seen, <<"s1">>))

\* C20: two upserts of one session are not coordinated.  The session record
\* is always the one of the caller that wrote last: the references that caller
\* read, followed by its own run id if that was not among them.  So whenever
\* the two calls interleave between the read of the references and the
\* session upsert, each adding a different new run, the stored run_references
\* ends up with exactly one of the two new run ids, while both runs are in
\* the run store.
C20_LostUpdate ==
    /\ last.op = "conc_upsert" =>
          LET w == writers[last.w]
              seen == RefsIn(w.seen, <<"s1">>)
          IN  RefsIn(backend, <<"s1">>) =
                 IF InSeq(w.run_id[1], seen) THEN seen
                 ELSE Append(seen, w.run_id[1])
    /\ Interleaved =>
          /\ \E w \in Writers :
                /\ InSeq(writers[w].run_id[1], RefsIn(backend, <<"s1">>))
                /\ \A v \in Writers \ {w} :
                      ~InSeq(writers[v].run_id[1], RefsIn(backend, <<"s1">>))
          /\ \A w \in Writers :
                /\ writers[w].run_id[1] \in DOMAIN backend
                /\ LoadRunFromStorage(backend, writers[w].run_id[1], {}).val # None

\* both calls are over, one of the two new runs is missing from the stored
\* references, and both runs are in the run store
C20_Witness ==
    /\ Interleaved
    /\ Len(RefsIn(backend, <<"s1">>)) >= 2
    /\ InSeq(writers["w1"].run_id[1], RefsIn(backend, <<"s1">>))
    /\ ~InSeq(writers["w2"].run_id[1], RefsIn(backend, <<"s1">>))
    /\ \A w \in Writers : writers[w].run_id[1] \in DOMAIN backend

----------------------------------------------------------------------------
(* Claims on asynchronous backends *)

\* C21 as stated: over a backend with coroutine read and upsert, upsert stores
\* the same run_references, and read returns the same session, as the wrapper
\* over a synchronous backend does from the same stored state: existing
\* references are found, optimized sessions are reconstructed, separated-run
\* envelopes are filtered.
C21_SyncAsyncTransparent ==
    /\ last.op = "a_upsert" =>
          RefsIn(backend, last.sid)
              = RefsIn(UpsertResult(last.before, last.arg, FALSE).backend, last.sid)
    /\ last.op = "a_read" =>
          last.result = ReadResult(backend, last.id, {}).val

----------------------------------------------------------------------------
(* Claims on the run-level API and on delete *)

\* C22 as stated: on an optimized session with n stored references,
\* get_recent_runs(session_id, limit) returns the runs of the last
\* min(limit, n) references, oldest first.
C22_RecentRuns ==
    (/\ last.op = "get_recent_runs"
     /\ last.sid \in DOMAIN backend
     /\ IsOptimizedSession(backend[last.sid])
     /\ \A i \in DOMAIN RefsIn(backend, last.sid) :
           RefsIn(backend, last.sid)[i] \in StoredRunEnvelopes) =>
        LET refs == LastN(RefsIn(backend, last.sid), last.limit)
        IN  last.result =
               [i \in 1..Len(refs) |-> backend[refs[i]].memory.single_run]

\* C23 as stated: after delete_session(id), read(id) returns nothing, get_run
\* returns None for every run id the session referenced, and no run envelope
\* of the session is left in the backend.
C23_DeleteRemovesRuns ==
    (last.op = "delete" /\ last.sid \in SessionIds) =>
        /\ ReadResult(backend, last.sid, {}).val = None
        /\ \A i \in DOMAIN RefsIn(last.before, last.sid) :
              LET run_id == RefsIn(last.before, last.sid)[i]
              IN  /\ run_id \notin DOMAIN backend
                  /\ GetRunResult(backend, runs_cache, last.sid, run_id, {}).val
                         = None

----------------------------------------------------------------------------
(* Claims on migration, growth of the reference list, failing reads *)

\* C24 as stated: when a session carrying k > 1 embedded runs is upserted and
\* the backend record for its id has no reference list (a legacy record, or no
\* record), all k runs are stored separately and referenced in order, so that
\* no run of the legacy conversation is dropped.
C24_LegacyMigrated ==
    (/\ last.op = "upsert"
     /\ Len(GetRunsFromSession(last.argBefore)) > 1
     /\ \/ last.sid \notin DOMAIN last.before
        \/ "run_references" \notin DOMAIN last.before[last.sid].memory) =>
        LET runs == GetRunsFromSession(last.argBefore)
            ids == [i \in 1..Len(runs) |-> ExpectedRunId(last.sid, runs[i])]
        IN  /\ RefsIn(backend, last.sid) = FirstOccurrences(ids)
            /\ \A i \in DOMAIN ids : ids[i] \in DOMAIN backend

----------------------------------------------------------------------------
(* Claims on MCPTool *)

\* C25 as stated: with connection_mode 'server_params' and neither a command
\* nor a url set, provide_instance does not raise and returns an instance.
C25_DefaultFallback ==
    (/\ last.op = "provide_instance"
     /\ tool.connection_mode = "server_params"
     /\ tool.command = None
     /\ tool.url = None) =>
        /\ last.raised = "none"
        /\ last.instance # None

\* s is an initial part of u
IsPrefix(s, u) == Len(s) <= Len(u) /\ \A i \in 1..Len(s) : u[i] = s[i]

\* C26 as stated: over a fault-free backend the run_references stored after an
\* upsert has the previously stored list as a prefix, also when the incoming
\* session has an empty run list.
C26_ReferencesOnlyGrow ==
    last.op = "upsert" =>
        IsPrefix(RefsIn(last.before, last.sid), RefsIn(backend, last.sid))

\* C27 as stated: when the backend read of the existing session raises for a
\* reason other than the session not existing, upsert does not store a
\* reference list that omits previously stored references.
C27_ReadFailureKeepsReferences ==
    last.op = "upsert_read_raising" =>
        IsPrefix(RefsIn(last.before, last.sid), RefsIn(backend, last.sid))

\* C28 as stated: after save_session(S) or save(S) with one new run, whether
\* or not the backend defines save_session / save, the stored run_references
\* is the previous reference list followed by the new run's id.
C28_SaveSeparatesRuns ==
    last.op \in {"save_session", "save"} =>
        LET old == RefsIn(last.before, last.sid)
            new == ExpectedRunId(last.sid, last.run)
        IN  RefsIn(backend, last.sid) =
               IF InSeq(new, old) THEN old ELSE Append(old, new)

----------------------------------------------------------------------------
(* Claims on the listing operations *)

\* C29 as stated: after any sequence of upserts, get_all_session_ids,
\* get_all_sessions and get_recent_sessions return real sessions only, never
\* a run envelope that upsert wrote to the same backend.
C29_ListingsHideEnvelopes ==
    /\ last.op = "get_all_session_ids" =>
          \A k \in last.result : ~IsSeparatedRun(backend[k])
    /\ last.op \in {"get_all_sessions", "get_recent_sessions"} =>
          \A record \in last.result : ~IsSeparatedRun(record)

----------------------------------------------------------------------------
(* Claims on the tool hooks *)

\* the number of events of one type for one node among the first n sent
CountEvents(events, n, event_type, node_id) ==
    Cardinality({i \in 1..n : /\ events[i].event_type = event_type
                              /\ events[i].node_id = node_id})

HookNodeIds == {"uuid-a", "uuid-b", "read_file", "think"}

\* C30: for both hooks, a hook call invokes the tool exactly once whether or
\* not events are sent; when a start event was sent for a node, the matching
\* end event for the same node is sent after the tool has finished, when it
\* returned and when it raised; an end event is never sent without a start
\* event before it; and an exception of the tool is re-raised to the caller.
C30_EventPairing ==
    /\ \A n \in 0..Len(hook.events) : \A node_id \in HookNodeIds :
          CountEvents(hook.events, n, EndEvent(hook.kind), node_id)
              <= CountEvents(hook.events, n, StartEvent(hook.kind), node_id)
    /\ hook.call.pc = "idle" =>
          \A node_id \in HookNodeIds :
              CountEvents(hook.events, Len(hook.events), EndEvent(hook.kind), node_id)
                  = CountEvents(hook.events, Len(hook.events),
                                StartEvent(hook.kind), node_id)
    /\ last.op = "hook_done" =>
          /\ last.invoked = 1
          /\ last.sent = IF last.send
                         THEN <<[event_type |-> StartEvent(last.kind),
                                 node_id |-> last.node_id],
                                [event_type |-> EndEvent(last.kind),
                                 node_id |-> last.node_id]>>
                         ELSE <<>>
          /\ last.tool = "raise" => last.raised

\* a call whose tool raised after the start event was sent has ended, with
\* its end event sent and the exception passed on
C30_Witness ==
    /\ last.op = "hook_done"
    /\ last.send
    /\ last.tool = "raise"
    /\ last.raised
    /\ Len(last.sent) = 2
    /\ Len(hook.events) >= 4

====
